---- MODULE Spec2Model ----
(***************************************************************************)
(* A model of ctdsLint: the component complexity analyzer                  *)
(* (core/complexity-analyzer), the aggregate score helpers of the CLI      *)
(* reporters and of the plugin message handler, and the CLI entry point.   *)
(*                                                                         *)
(* Numbers.  JavaScript numbers are IEEE-754 doubles.  Quantities that the *)
(* code rounds to one decimal are kept as integers in tenths, the axis     *)
(* scores of the composite as integers in thousandths, and Math.log2 as a  *)
(* fixed-point binary logarithm in millionths.  The score                  *)
(* helpers' (passed / total) * 100 is computed bit-exactly in binary64,    *)
(* because there the double rounding decides the result.                   *)
(***************************************************************************)
EXTENDS Integers, Sequences, FiniteSets, TLC

VARIABLES
    components,   \* analyzer: the LintComponent[] handed to the analyzer
    results,      \* analyzer: the ComponentComplexityResult[] it returned
    onProgress,   \* analyzer: the onProgress argument, see Callbacks
    progress,     \* analyzer: the messages the onProgress callback recorded
    thrown,       \* analyzer: <<>> or <<the exception that escaped the call>>
    apc,          \* analyzer: "input" | "single" | "batch" | "threw" | "idle"
    checks,       \* score helpers: the AuditCheck[] under consideration
    stats,        \* score helpers: <<>> or <<the record a helper returned>>
    helper,       \* score helpers: which helper produced stats
    argv,         \* cli: process.argv.slice(2)
    env,          \* cli: process.env, "" for a variable that is not set
    args,         \* cli: <<>> or <<the CliArgs parseArgs returned>>
    cpc,          \* cli: where main() stands: "idle" | "start" | the pending await | "exited"
    exitCode,     \* cli: <<>> while the process runs, then <<its exit code>>
    requests,     \* cli: the Figma API requests issued so far
    fileResponse, \* cli: <<>> or <<the file response>>
    stdio,        \* cli: what was printed, one tag per message
    reports,      \* cli: the reports emitted: where to, in which format, with what
    audit,        \* cli: <<>> or <<the AuditResults main built>>
    deepLink,     \* url parser: <<>> or <<the fileKey and nodeId handed to buildFigmaUrl>>
    url,          \* url parser: the string handed to parseFigmaUrl, as text
    urlParser,    \* url parser: "none" | "inputs" | "built" | "url-parser" | "unescaping"
    urlParts,     \* url parser: <<>> or <<what the call returned or threw>>
    pages,        \* report: LintData['pages'], the adapted page trees
    lintComponents, \* report: the LintComponent[] findComponents returned
    auditResults, \* report: <<>> or the AuditResults the checks were gathered in
    emitted,      \* report: <<>> or <<what a reporter wrote>>
    rpc,          \* report: "idle" | "pages" | "found" | "checked" | "reported" | "threw"
    uiMessage,    \* plugin: <<>> or <<the message handleUIMessage was called with>>
    posted,       \* plugin: the messages posted to the UI, in order
    hpc,          \* plugin: "idle" | "called" | "fetchPluginData" | "settled"
    promise       \* plugin: the promise handleUIMessage returned: "none" | "pending" | "fulfilled" | "rejected"

analyzerVars == <<components, results, onProgress, progress, thrown, apc>>
statsVars == <<checks, stats, helper>>
cliVars == <<argv, env, args, cpc, exitCode, requests, fileResponse, stdio, reports, audit>>
urlVars == <<deepLink, url, urlParser, urlParts>>
reportVars == <<pages, lintComponents, auditResults, emitted, rpc>>
pluginVars == <<uiMessage, posted, hpc, promise>>
vars == <<analyzerVars, statsVars, cliVars, urlVars, reportVars, pluginVars>>

(***************************************************************************)
(* Bounds of the model.                                                    *)
(***************************************************************************)
MaxNodes == 3        \* nodes per component tree in the single-component runs
MaxComponents == 3   \* components per batch
MaxChecks == 40      \* checks per list of passing and failing checks
MaxMixedChecks == 3  \* checks per list of checks of arbitrary status

(***************************************************************************)
(* Generic helpers.                                                        *)
(***************************************************************************)
Min(a, b) == IF a < b THEN a ELSE b
Max(a, b) == IF a > b THEN a ELSE b

RECURSIVE SumSeq(_)
SumSeq(s) == IF s = <<>> THEN 0 ELSE Head(s) + SumSeq(Tail(s))

RECURSIVE Pow2(_)
Pow2(k) == IF k = 0 THEN 1 ELSE 2 * Pow2(k - 1)

\* Math.round on a non-negative rational a / b: floor(a/b + 1/2).
RoundDiv(a, b) == (2 * a + b) \div (2 * b)

Range(s) == {s[i] : i \in 1..Len(s)}

\* checks.filter(c => c.status === status).length
countStatus(cs, status) == Cardinality({i \in 1..Len(cs) : cs[i].status = status})

(***************************************************************************)
(* LintNode (shared/types), as the analyzer reads it.  An optional numeric *)
(* field is [kind, value] with kind "undefined", "number" or, for          *)
(* cornerRadius and fontSize, "MIXED"; an optional string field holds      *)
(* "undefined" when absent; an optional array is a presence flag next to   *)
(* the sequence.                                                           *)
(***************************************************************************)
Undefined == [kind |-> "undefined", value |-> 0]
Mixed == [kind |-> "MIXED", value |-> 0]
Num(n) == [kind |-> "number", value |-> n]

\* A colour {r,g,b,a}; channels in thousandths of the unit interval.
RGBA(r, g, b, a) == [r |-> r, g |-> g, b |-> b, a |-> a]

SolidPaint(visible, c) == [type |-> "SOLID", visible |-> visible, hasColor |-> TRUE, color |-> c]
OtherPaint(type, visible) ==
    [type |-> type, visible |-> visible, hasColor |-> FALSE, color |-> RGBA(0, 0, 0, 0)]

Effect(type, visible, hasColor, c) ==
    [type |-> type, visible |-> visible, hasColor |-> hasColor, color |-> c]

\* componentPropertyDefinitions entry {type, variantOptions?}; only the
\* length of variantOptions is read.
PropDef(type, hasOptions, nOptions) ==
    [type |-> type, hasVariantOptions |-> hasOptions, variantOptions |-> nOptions]

\* A node with every optional field absent.
BareNode(type, id, name) ==
    [ id |-> id, name |-> name, type |-> type,
      layoutMode |-> "undefined",
      layoutSizingHorizontal |-> "undefined",
      layoutSizingVertical |-> "undefined",
      blendMode |-> "undefined",
      hasConstraints |-> FALSE,
      constraints |-> [horizontal |-> "undefined", vertical |-> "undefined"],
      hasEffects |-> FALSE, effects |-> <<>>,
      hasFills |-> FALSE, fills |-> <<>>,
      fillsIterable |-> TRUE,         \* FALSE: fills holds a value that is no array
      hasStrokes |-> FALSE, strokes |-> <<>>,
      cornerRadius |-> Undefined,
      opacity |-> Undefined,          \* in thousandths: 1000 is opacity 1
      strokeWeight |-> Undefined,
      fontSize |-> Undefined,
      paddingTop |-> Undefined, paddingRight |-> Undefined,
      paddingBottom |-> Undefined, paddingLeft |-> Undefined,
      itemSpacing |-> Undefined,
      hasComponentPropertyDefinitions |-> FALSE,
      componentPropertyDefinitions |-> <<>>,   \* Object.values order
      hasChildren |-> FALSE, children |-> <<>> ]

WithChildren(node, kids) == [node EXCEPT !.hasChildren = TRUE, !.children = kids]
WithEmptyChildren(node) == [node EXCEPT !.hasChildren = TRUE, !.children = <<>>]

(***************************************************************************)
(* The node payloads the component trees are built from.  Each exercises a *)
(* different part of the analyzer: declared variant options, a VARIANT     *)
(* without or with an empty option list, MIXED and default values, hidden  *)
(* and non-SOLID paints, colours that differ only past the second decimal. *)
(***************************************************************************)
ButtonSet ==
    [BareNode("COMPONENT_SET", "1:1", "Button") EXCEPT
        !.hasComponentPropertyDefinitions = TRUE,
        !.componentPropertyDefinitions =
            << PropDef("VARIANT", TRUE, 3), PropDef("VARIANT", TRUE, 2),
               PropDef("BOOLEAN", FALSE, 0) >>,
        !.layoutMode = "HORIZONTAL",
        !.layoutSizingHorizontal = "HUG",
        !.layoutSizingVertical = "FIXED",
        !.paddingTop = Num(8), !.paddingRight = Num(16),
        !.paddingBottom = Num(8), !.paddingLeft = Num(16),
        !.itemSpacing = Num(4),
        !.cornerRadius = Num(4),
        !.hasFills = TRUE,
        !.fills = << SolidPaint(TRUE, RGBA(200, 400, 1000, 1000)) >>]

IconSlot ==
    [BareNode("COMPONENT", "1:2", "Icon") EXCEPT
        !.hasComponentPropertyDefinitions = TRUE,
        !.componentPropertyDefinitions =
            << PropDef("VARIANT", FALSE, 0), PropDef("INSTANCE_SWAP", FALSE, 0),
               PropDef("TEXT", FALSE, 0) >>,
        !.blendMode = "MULTIPLY",
        !.hasConstraints = TRUE,
        !.constraints = [horizontal |-> "MIN", vertical |-> "CENTER"],
        !.opacity = Num(500),
        !.strokeWeight = Num(2),
        !.hasStrokes = TRUE,
        !.strokes = << SolidPaint(TRUE, RGBA(0, 0, 0, 1000)),
                       OtherPaint("GRADIENT_LINEAR", TRUE) >>,
        !.hasEffects = TRUE,
        !.effects = << Effect("DROP_SHADOW", TRUE, TRUE, RGBA(0, 0, 0, 250)),
                       Effect("LAYER_BLUR", TRUE, FALSE, RGBA(0, 0, 0, 0)),
                       Effect("INNER_SHADOW", FALSE, TRUE, RGBA(0, 0, 0, 500)) >>]

Label ==
    [BareNode("TEXT", "1:3", "Label") EXCEPT
        !.fontSize = Num(14),
        !.opacity = Num(1000),
        !.hasFills = TRUE,
        !.fills = << SolidPaint(TRUE, RGBA(201, 400, 1000, 1000)),
                     SolidPaint(TRUE, RGBA(200, 400, 1000, 1000)),
                     SolidPaint(FALSE, RGBA(1000, 0, 0, 1000)) >>]

MixedFrame ==
    [BareNode("FRAME", "1:4", "Frame") EXCEPT
        !.hasComponentPropertyDefinitions = TRUE,
        !.componentPropertyDefinitions = <<>>,
        !.layoutMode = "NONE",
        !.blendMode = "PASS_THROUGH",
        !.cornerRadius = Mixed,
        !.fontSize = Mixed,
        !.strokeWeight = Num(0),
        !.hasFills = TRUE,
        !.fills = << OtherPaint("IMAGE", TRUE) >>,
        !.hasEffects = TRUE, !.effects = <<>>]

EmptyVariant ==
    [BareNode("COMPONENT", "1:5", "Empty") EXCEPT
        !.hasComponentPropertyDefinitions = TRUE,
        !.componentPropertyDefinitions = << PropDef("VARIANT", TRUE, 0) >>]

\* One variant axis with very many options: saturates the cyclomatic axis.
HugeSet ==
    [BareNode("COMPONENT_SET", "1:6", "Huge") EXCEPT
        !.hasComponentPropertyDefinitions = TRUE,
        !.componentPropertyDefinitions = << PropDef("VARIANT", TRUE, 400) >>,
        !.layoutMode = "VERTICAL",
        !.itemSpacing = Num(12)]

\* A node of a wrong shape: fills is an object, not an array of paints.
WrongShape ==
    [BareNode("COMPONENT", "1:7", "Broken") EXCEPT
        !.hasFills = TRUE, !.fillsIterable = FALSE,
        !.paddingTop = Num(2)]

Payloads == {ButtonSet, IconSlot, Label, MixedFrame, EmptyVariant, HugeSet}

(***************************************************************************)
(* Component trees: every tree of at most n nodes whose nodes carry one of *)
(* the payloads; a node without children either lacks the children field   *)
(* or holds an empty array.                                                *)
(***************************************************************************)
RECURSIVE TreesOfSize(_), ForestsOfSize(_)
TreesOfSize(n) ==
    IF n = 1
    THEN Payloads \cup {WithEmptyChildren(p) : p \in Payloads}
    ELSE {WithChildren(p, f) : p \in Payloads, f \in ForestsOfSize(n - 1)}

\* The non-empty sequences of trees with m nodes in total.
ForestsOfSize(m) ==
    IF m = 0
    THEN {<<>>}
    ELSE UNION {{<<t>> \o f : t \in TreesOfSize(k), f \in ForestsOfSize(m - k)} : k \in 1..m}

Trees(n) == UNION {TreesOfSize(k) : k \in 1..n}

\* LintComponent {node, pageName}
Component(node, pageName) == [node |-> node, pageName |-> pageName]

(***************************************************************************)
(* Structural metrics.                                                     *)
(***************************************************************************)
\* const children = node.children ?? []
childrenOrEmpty(node) == IF node.hasChildren THEN node.children ELSE <<>>

\* typeDistribution[t] = (typeDistribution[t] ?? 0) + 1
bumpType(dist, t) ==
    IF t \in DOMAIN dist THEN [dist EXCEPT ![t] = @ + 1] ELSE dist @@ (t :> 1)

\* The counters of computeStructuralMetrics before the walk.
structuralStart ==
    [nodeCount |-> 0, leafCount |-> 0, maxDepth |-> 0, maxFanOut |-> 0,
     typeDistribution |-> [t \in {} |-> 0]]

\* structuralVisit with nodeCount++ moved into the leaf branch.
structuralVisitCountingLeaves(node, depth, acc) ==
    LET seen == [acc EXCEPT
                     !.typeDistribution = bumpType(@, node.type),
                     !.maxDepth = IF depth > @ THEN depth ELSE @]
        n == Len(childrenOrEmpty(node))
    IN  IF n = 0
        THEN [seen EXCEPT !.nodeCount = @ + 1, !.leafCount = @ + 1]
        ELSE [seen EXCEPT !.maxFanOut = IF n > @ THEN n ELSE @]

\* structuralVisit with the leaf test `!node.children` instead of length 0.
structuralVisitLeafByAbsence(node, depth, acc) ==
    LET counted == [acc EXCEPT
                        !.nodeCount = @ + 1,
                        !.typeDistribution = bumpType(@, node.type),
                        !.maxDepth = IF depth > @ THEN depth ELSE @]
        n == Len(childrenOrEmpty(node))
    IN  IF ~node.hasChildren
        THEN [counted EXCEPT !.leafCount = @ + 1]
        ELSE [counted EXCEPT !.maxFanOut = IF n > @ THEN n ELSE @]

\* The body of walk for one node, up to the loop over its children.
structuralVisit(node, depth, acc) ==
    LET counted == [acc EXCEPT
                        !.nodeCount = @ + 1,
                        !.typeDistribution = bumpType(@, node.type),
                        !.maxDepth = IF depth > @ THEN depth ELSE @]
        n == Len(childrenOrEmpty(node))
    IN  IF n = 0
        THEN [counted EXCEPT !.leafCount = @ + 1]
        ELSE [counted EXCEPT !.maxFanOut = IF n > @ THEN n ELSE @]

RECURSIVE structuralWalk(_, _, _), structuralWalkChildren(_, _, _, _)
structuralWalk(node, depth, acc) ==
    structuralWalkChildren(childrenOrEmpty(node), 1, depth + 1,
                           structuralVisit(node, depth, acc))

\* for (const child of children) walk(child, depth + 1), from the i-th child on
structuralWalkChildren(kids, i, depth, acc) ==
    IF i > Len(kids)
    THEN acc
    ELSE structuralWalkChildren(kids, i + 1, depth, structuralWalk(kids[i], depth, acc))

computeStructuralMetrics(root) ==
    LET acc == structuralWalk(root, 0, structuralStart)
    IN  [nodeCount |-> acc.nodeCount,
         maxDepth |-> acc.maxDepth,
         leafCount |-> acc.leafCount,
         maxFanOut |-> acc.maxFanOut,
         uniqueTypes |-> Cardinality(DOMAIN acc.typeDistribution),
         typeDistribution |-> acc.typeDistribution]

(***************************************************************************)
(* Cyclomatic complexity (design equivalent).                              *)
(***************************************************************************)
cyclomaticStart == [variants |-> 0, booleanProps |-> 0, instanceSwaps |-> 0, textProps |-> 0]

\* cyclomaticDef counting only the options beyond the first of a VARIANT.
cyclomaticDefBeyondFirst(def, acc) ==
    CASE def.type = "VARIANT" ->
            [acc EXCEPT !.variants =
                @ + (IF def.hasVariantOptions THEN Max(0, def.variantOptions - 1) ELSE 1)]
      [] def.type = "BOOLEAN" -> [acc EXCEPT !.booleanProps = @ + 1]
      [] def.type = "INSTANCE_SWAP" -> [acc EXCEPT !.instanceSwaps = @ + 1]
      [] def.type = "TEXT" -> [acc EXCEPT !.textProps = @ + 1]
      [] OTHER -> acc

\* switch (def.type)
cyclomaticDef(def, acc) ==
    CASE def.type = "VARIANT" ->
            [acc EXCEPT !.variants =
                @ + (IF def.hasVariantOptions THEN def.variantOptions ELSE 1)]
      [] def.type = "BOOLEAN" -> [acc EXCEPT !.booleanProps = @ + 1]
      [] def.type = "INSTANCE_SWAP" -> [acc EXCEPT !.instanceSwaps = @ + 1]
      [] def.type = "TEXT" -> [acc EXCEPT !.textProps = @ + 1]
      [] OTHER -> acc

\* for (const def of Object.values(node.componentPropertyDefinitions)), from the i-th on
RECURSIVE cyclomaticDefs(_, _, _)
cyclomaticDefs(defs, i, acc) ==
    IF i > Len(defs) THEN acc ELSE cyclomaticDefs(defs, i + 1, cyclomaticDef(defs[i], acc))

RECURSIVE cyclomaticWalk(_, _), cyclomaticWalkChildren(_, _, _)
cyclomaticWalk(node, acc) ==
    LET own == IF node.hasComponentPropertyDefinitions
               THEN cyclomaticDefs(node.componentPropertyDefinitions, 1, acc)
               ELSE acc
    IN  IF node.hasChildren THEN cyclomaticWalkChildren(node.children, 1, own) ELSE own

cyclomaticWalkChildren(kids, i, acc) ==
    IF i > Len(kids)
    THEN acc
    ELSE cyclomaticWalkChildren(kids, i + 1, cyclomaticWalk(kids[i], acc))

\* computeCyclomaticMetrics without the base of 1.
computeCyclomaticMetricsNoBase(root) ==
    LET b == cyclomaticWalk(root, cyclomaticStart)
    IN  [score |-> b.variants + b.booleanProps + b.instanceSwaps + b.textProps,
         breakdown |-> b]

computeCyclomaticMetrics(root) ==
    LET b == cyclomaticWalk(root, cyclomaticStart)
    IN  [score |-> 1 + b.variants + b.booleanProps + b.instanceSwaps + b.textProps,
         breakdown |-> b]

(***************************************************************************)
(* Halstead complexity (design equivalent).  A token `tag:value` is the    *)
(* pair <<tag, value>>.                                                    *)
(***************************************************************************)
\* Number.prototype.toFixed(2) of a channel given in thousandths: hundredths.
toFixed2(x) == RoundDiv(x, 10)

colorText(c) == <<toFixed2(c.r), toFixed2(c.g), toFixed2(c.b), toFixed2(c.a)>>

\* `effect:${e.type}` for every visible effect
effectTokens(effects) ==
    LET shown == SelectSeq(effects, LAMBDA e : e.visible)
    IN  [i \in 1..Len(shown) |-> <<"effect", shown[i].type>>]

\* `tag:r,g,b,a` for every visible SOLID paint that has a colour
paintTokens(tag, paints) ==
    LET solid == SelectSeq(paints, LAMBDA f : f.visible /\ f.type = "SOLID" /\ f.hasColor)
    IN  [i \in 1..Len(solid) |-> <<tag, colorText(solid[i].color)>>]

\* `effectColor:r,g,b,a` for every visible effect that has a colour
effectColorTokens(effects) ==
    LET coloured == SelectSeq(effects, LAMBDA e : e.visible /\ e.hasColor)
    IN  [i \in 1..Len(coloured) |-> <<"effectColor", colorText(coloured[i].color)>>]

\* The same push without the test on the value (opacity !== 1, strokeWeight > 0).
numberTokenAlways(tag, field, keep) ==
    IF field.kind = "number" THEN << <<tag, field.value>> >> ELSE <<>>

\* `tag:${value}` when the numeric field is defined and keep(field) holds
numberToken(tag, field, keep) ==
    IF field.kind = "number" /\ keep THEN << <<tag, field.value>> >> ELSE <<>>

\* The operator tokens one node pushes, in push order.
nodeOperators(node) ==
       << <<"type", node.type>> >>
    \o (IF node.layoutMode \notin {"undefined", "", "NONE"}
        THEN << <<"layout", node.layoutMode>> >> ELSE <<>>)
    \o (IF node.layoutSizingHorizontal \notin {"undefined", ""}
        THEN << <<"sizingH", node.layoutSizingHorizontal>> >> ELSE <<>>)
    \o (IF node.layoutSizingVertical \notin {"undefined", ""}
        THEN << <<"sizingV", node.layoutSizingVertical>> >> ELSE <<>>)
    \o (IF node.blendMode \notin {"undefined", "", "PASS_THROUGH"}
        THEN << <<"blend", node.blendMode>> >> ELSE <<>>)
    \o (IF node.hasConstraints
        THEN << <<"constraintH", node.constraints.horizontal>>,
                <<"constraintV", node.constraints.vertical>> >>
        ELSE <<>>)
    \o (IF node.hasEffects
        THEN effectTokens(node.effects)
        ELSE <<>>)

\* The operand tokens one node pushes, in push order.
nodeOperands(node) ==
       (IF node.hasFills
        THEN paintTokens("color", node.fills)
        ELSE <<>>)
    \o (IF node.hasStrokes
        THEN paintTokens("strokeColor", node.strokes)
        ELSE <<>>)
    \o (IF node.hasEffects
        THEN effectColorTokens(node.effects)
        ELSE <<>>)
    \o (IF node.cornerRadius.kind = "number"
        THEN << <<"radius", node.cornerRadius.value>> >> ELSE <<>>)
    \o numberToken("opacity", node.opacity, node.opacity.value # 1000)
    \o numberToken("strokeWeight", node.strokeWeight, node.strokeWeight.value > 0)
    \o (IF node.fontSize.kind = "number"
        THEN << <<"fontSize", node.fontSize.value>> >> ELSE <<>>)
    \o numberToken("paddingTop", node.paddingTop, TRUE)
    \o numberToken("paddingRight", node.paddingRight, TRUE)
    \o numberToken("paddingBottom", node.paddingBottom, TRUE)
    \o numberToken("paddingLeft", node.paddingLeft, TRUE)
    \o numberToken("itemSpacing", node.itemSpacing, TRUE)

halsteadStart == [operatorBag |-> <<>>, operandBag |-> <<>>]

RECURSIVE halsteadWalk(_, _), halsteadWalkChildren(_, _, _)
halsteadWalk(node, bags) ==
    LET own == [operatorBag |-> bags.operatorBag \o nodeOperators(node),
                operandBag |-> bags.operandBag \o nodeOperands(node)]
    IN  IF node.hasChildren THEN halsteadWalkChildren(node.children, 1, own) ELSE own

halsteadWalkChildren(kids, i, bags) ==
    IF i > Len(kids)
    THEN bags
    ELSE halsteadWalkChildren(kids, i + 1, halsteadWalk(kids[i], bags))

\* for (const f of node.fills) raises a TypeError when fills is no iterable;
\* the walk raises as soon as it reaches such a node.
RECURSIVE halsteadWalkRaises(_)
halsteadWalkRaises(node) ==
    \/ node.hasFills /\ ~node.fillsIterable
    \/ \E i \in 1..Len(childrenOrEmpty(node)) : halsteadWalkRaises(childrenOrEmpty(node)[i])

(***************************************************************************)
(* Math.log2 in fixed point: Log2Micro(n) is 1000000 * log2(n) for an      *)
(* integer n >= 1, to within 3 units.  The integer part is exact; the      *)
(* fraction comes from squaring the mantissa 22 times at 28 fractional     *)
(* bits (in two 14-bit limbs, so that no product leaves 32 bits).          *)
(***************************************************************************)
RECURSIVE FloorLog2(_)
FloorLog2(n) == IF n < 2 THEN 0 ELSE 1 + FloorLog2(n \div 2)

\* m * m / 2^28 for a mantissa m in [2^28, 2^29)
SquareFix(m) ==
    LET a == m \div 16384
        b == m % 16384
    IN  a * a + (2 * a * b) \div 16384 + (b * b) \div 268435456

RECURSIVE Log2Fraction(_, _, _)
Log2Fraction(m, k, acc) ==
    IF k = 0
    THEN acc
    ELSE LET sq == SquareFix(m)
         IN  IF sq >= 536870912
             THEN Log2Fraction(sq \div 2, k - 1, 2 * acc + 1)
             ELSE Log2Fraction(sq, k - 1, 2 * acc)

Log2Micro(n) ==
    LET e == FloorLog2(n)
        acc == Log2Fraction(n * Pow2(28 - e), 22, 0)
    IN  1000000 * e + ((acc \div 2048) * 15625) \div 32 + ((acc % 2048) * 15625) \div 65536

\* a / b in ten-thousandths, for two logarithms in millionths
RatioOfLogs(a, b) == (a * 100) \div (b \div 100)

\* The same metrics with the volume taken as length * log2(vocabulary + 1).
computeHalsteadMetricsShifted(root) ==
    LET bags == halsteadWalk(root, halsteadStart)
        n1 == Cardinality(Range(bags.operatorBag))
        n2 == Cardinality(Range(bags.operandBag))
        N1 == Len(bags.operatorBag)
        N2 == Len(bags.operandBag)
        vocabulary == n1 + n2
        length == N1 + N2
        volumeMicro == IF length > 0 /\ vocabulary > 0
                       THEN length * Log2Micro(vocabulary + 1) ELSE 0
    IN  [vocabulary |-> vocabulary,
         length |-> length,
         volume |-> (volumeMicro + 50000) \div 100000,
         difficulty |-> IF n2 > 0 THEN RoundDiv(10 * n1 * N2, 2 * n2) ELSE 0,
         effort |-> IF n2 > 0
                    THEN (n1 * N2 * (volumeMicro \div 1000) + 100 * n2) \div (200 * n2)
                    ELSE 0,
         operators |-> [unique |-> n1, total |-> N1],
         operands |-> [unique |-> n2, total |-> N2]]

\* volume, difficulty and effort are in tenths: Math.round(x * 10) / 10.
computeHalsteadMetrics(root) ==
    LET bags == halsteadWalk(root, halsteadStart)
        n1 == Cardinality(Range(bags.operatorBag))
        n2 == Cardinality(Range(bags.operandBag))
        N1 == Len(bags.operatorBag)
        N2 == Len(bags.operandBag)
        vocabulary == n1 + n2
        length == N1 + N2
        \* length * Math.log2(vocabulary), in millionths
        volumeMicro == IF length > 0 /\ vocabulary > 0
                       THEN length * Log2Micro(vocabulary) ELSE 0
    IN  [vocabulary |-> vocabulary,
         length |-> length,
         volume |-> (volumeMicro + 50000) \div 100000,
         difficulty |-> IF n2 > 0 THEN RoundDiv(10 * n1 * N2, 2 * n2) ELSE 0,
         effort |-> IF n2 > 0
                    THEN (n1 * N2 * (volumeMicro \div 1000) + 100 * n2) \div (200 * n2)
                    ELSE 0,
         operators |-> [unique |-> n1, total |-> N1],
         operands |-> [unique |-> n2, total |-> N2]]

(***************************************************************************)
(* Composite score.  The axis scores and their blend are in thousandths.   *)
(***************************************************************************)
NodeSaturation == 500
DepthSaturation == 15
CyclomaticSpan == 19
VolumeSaturation == 5000

structuralScore(structural) ==
    Min(100000,
        7 * RatioOfLogs(Log2Micro(structural.nodeCount + 1), Log2Micro(NodeSaturation))
        + (structural.maxDepth * 30000) \div DepthSaturation)

\* The cyclomatic axis without Math.min(100, ...).
cyclomaticScoreUnclamped(cyclomatic) ==
    ((cyclomatic.score - 1) * 100000) \div CyclomaticSpan

cyclomaticScore(cyclomatic) ==
    Min(100000, ((cyclomatic.score - 1) * 100000) \div CyclomaticSpan)

\* log2 of a volume given in tenths is log2(tenths) - log2(10)
halsteadScore(halstead) ==
    IF halstead.volume > 0
    THEN Min(100000,
             10 * RatioOfLogs(Log2Micro(halstead.volume) - Log2Micro(10),
                              Log2Micro(VolumeSaturation)))
    ELSE 0

\* The same blend with the clamps left out.
computeCompositeScoreUnclamped(structural, cyclomatic, halstead) ==
    LET composite ==
            (3 * structuralScore(structural)
             + 3 * (((cyclomatic.score - 1) * 100000) \div CyclomaticSpan)
             + 4 * halsteadScore(halstead)) \div 10
    IN  RoundDiv(composite, 1000)

computeCompositeScore(structural, cyclomatic, halstead) ==
    LET composite ==
            (3 * structuralScore(structural)
             + 3 * cyclomaticScore(cyclomatic)
             + 4 * halsteadScore(halstead)) \div 10
    IN  RoundDiv(Min(100000, Max(0, composite)), 1000)

(***************************************************************************)
(* Public API of the analyzer.                                             *)
(***************************************************************************)
analyzeComponentComplexity(component) ==
    LET node == component.node
        structural == computeStructuralMetrics(node)
        cyclomatic == computeCyclomaticMetrics(node)
        halstead == computeHalsteadMetrics(node)
    IN  [componentName |-> node.name,
         nodeId |-> node.id,
         structural |-> structural,
         cyclomatic |-> cyclomatic,
         halstead |-> halstead,
         composite |-> computeCompositeScore(structural, cyclomatic, halstead)]

\* analyzeComponentComplexity has no try block: what a metric walk raises
\* escapes it.
analyzeComponentComplexityRaises(component) == halsteadWalkRaises(component.node)

\* A sort that keeps one element of every group of equal composite.
insertByCompositeUnlessTied(sorted, r) ==
    LET k == Cardinality({i \in 1..Len(sorted) : sorted[i].composite >= r.composite})
    IN  IF \E i \in 1..Len(sorted) : sorted[i].composite = r.composite
        THEN sorted
        ELSE SubSeq(sorted, 1, k) \o <<r>> \o SubSeq(sorted, k + 1, Len(sorted))

\* Array.prototype.sort((a, b) => b.composite - a.composite) is stable: r goes
\* behind every element already placed whose composite is not smaller.
insertByComposite(sorted, r) ==
    LET k == Cardinality({i \in 1..Len(sorted) : sorted[i].composite >= r.composite})
    IN  SubSeq(sorted, 1, k) \o <<r>> \o SubSeq(sorted, k + 1, Len(sorted))

RECURSIVE sortByComposite(_, _, _)
sortByComposite(rs, i, sorted) ==
    IF i > Len(rs) THEN sorted ELSE sortByComposite(rs, i + 1, insertByComposite(sorted, rs[i]))

\* The loop of analyzeAllComponents without the final sort.
analyzeInInputOrder(comps) == [i \in 1..Len(comps) |-> analyzeComponentComplexity(comps[i])]

\* analyzeAllComponents returning `results` without sorting it.
analyzeAllComponentsUnsorted(comps) == analyzeInInputOrder(comps)

analyzeAllComponents(comps) == sortByComposite(analyzeInInputOrder(comps), 1, <<>>)

\* The input list as if the final sort had been applied to it, not to results.
inputAfterAnalysisSorted(comps) ==
    LET rs == analyzeAllComponents(comps)
    IN  [i \in 1..Len(comps) |->
            CHOOSE c \in Range(comps) : analyzeComponentComplexity(c) = rs[i]]

\* The components argument after a call of the analyzer: the walks and the
\* loop only read it (component.node, node.children, components[i]); the
\* results are pushed to a fresh array, and it is that array sort() reorders.
inputAfterAnalysis(comps) == comps

\* The messages with the loop index i in place of i + 1.
progressMessagesZeroBased(comps) ==
    [i \in 1..Len(comps) |-> <<"Analyzing", comps[i].node.name, i - 1, Len(comps)>>]

\* The messages analyzeAllComponents hands to onProgress:
\* `Analyzing ${comp.node.name} (${i + 1}/${components.length})`
progressMessages(comps) == [i \in 1..Len(comps) |-> <<"Analyzing", comps[i].node.name, i, Len(comps)>>]

(***************************************************************************)
(* The onProgress argument: absent, a callback that records the message,   *)
(* or a callback that records until its at-th invocation, which throws.    *)
(***************************************************************************)
NoCallback == [kind |-> "undefined", at |-> 0]
LogCallback == [kind |-> "log", at |-> 0]
ThrowingCallback(k) == [kind |-> "throws", at |-> k]

Callbacks == {NoCallback, LogCallback} \cup {ThrowingCallback(k) : k \in 1..MaxComponents}

\* The iteration of the loop of analyzeAllComponents out of which an
\* exception escapes (the loop has no try block), 0 when none does.
\* Iteration i first calls onProgress, then analyzeComponentComplexity.
firstThrow(comps, cb) ==
    LET bad == {i \in 1..Len(comps) :
                   \/ cb.kind = "throws" /\ cb.at = i
                   \/ analyzeComponentComplexityRaises(comps[i])}
    IN  IF bad = {} THEN 0 ELSE CHOOSE i \in bad : \A j \in bad : i <= j

\* What escapes at iteration k: the callback's error, else the walk's
escaping(cb, k) == IF cb.kind = "throws" /\ cb.at = k THEN "Error: onProgress" ELSE "TypeError"

\* The messages the callback recorded when the loop ran up to iteration k
recorded(comps, cb, k) ==
    IF cb.kind = "undefined" THEN <<>>
    ELSE SubSeq(progressMessages(comps), 1,
                IF cb.kind = "throws" /\ cb.at <= k THEN cb.at - 1 ELSE k)

(***************************************************************************)
(* The analyzer run on one component, and on a batch.                      *)
(***************************************************************************)
BatchUniverse ==
    {Component(p, "Components") : p \in Payloads \cup {WrongShape}}
    \cup {Component(WithChildren(ButtonSet, <<Label, IconSlot>>), "Components"),
          Component(WithChildren(MixedFrame, <<WithChildren(IconSlot, <<Label>>)>>), "Icons")}

RECURSIVE SeqsUpTo(_, _)
SeqsUpTo(S, n) ==
    IF n = 0 THEN {<<>>}
    ELSE LET shorter == SeqsUpTo(S, n - 1)
         IN  shorter \cup {Append(q, x) : q \in {r \in shorter : Len(r) = n - 1}, x \in S}

UrlIdle == deepLink = <<>> /\ url = <<>> /\ urlParser = "none" /\ urlParts = <<>>

ReportIdle ==
    /\ pages = <<>> /\ lintComponents = <<>> /\ auditResults = <<>>
    /\ emitted = <<>> /\ rpc = "idle"

PluginIdle == uiMessage = <<>> /\ posted = <<>> /\ hpc = "idle" /\ promise = "none"

StatsIdle == checks = <<>> /\ stats = <<>> /\ helper = "none"

CliIdle ==
    /\ argv = <<>> /\ env = [FIGMA_FILE_KEY |-> "", FIGMA_PERSONAL_ACCESS_TOKEN |-> ""]
    /\ args = <<>> /\ cpc = "idle" /\ exitCode = <<>> /\ requests = <<>>
    /\ fileResponse = <<>> /\ stdio = <<>> /\ reports = <<>> /\ audit = <<>>

\* Trees in which the walk reaches a node of a wrong shape.
WrongShapeTrees == {WrongShape, WithChildren(ButtonSet, <<Label, WrongShape>>)}

InitComponent ==
    /\ components \in {<<Component(t, "Components")>> : t \in Trees(MaxNodes) \cup WrongShapeTrees}
    /\ results = <<>>
    /\ onProgress = NoCallback
    /\ progress = <<>>
    /\ thrown = <<>>
    /\ apc = "input"
    /\ StatsIdle
    /\ CliIdle
    /\ UrlIdle
    /\ ReportIdle
    /\ PluginIdle

\* const result = analyzeComponentComplexity(component)
AnalyzeComponent ==
    /\ apc = "input"
    /\ Len(components) = 1
    /\ IF analyzeComponentComplexityRaises(components[1])
       THEN /\ thrown' = <<"TypeError">>
            /\ apc' = "threw"
            /\ UNCHANGED results
       ELSE /\ results' = <<analyzeComponentComplexity(components[1])>>
            /\ apc' = "single"
            /\ UNCHANGED thrown
    /\ components' = inputAfterAnalysis(components)
    /\ UNCHANGED <<onProgress, progress, statsVars, cliVars, urlVars, reportVars, pluginVars>>

SpecComponent == InitComponent /\ [][AnalyzeComponent]_vars

InitBatch ==
    /\ components \in SeqsUpTo(BatchUniverse, MaxComponents)
    /\ results = <<>>
    /\ onProgress \in Callbacks
    /\ progress = <<>>
    /\ thrown = <<>>
    /\ apc = "input"
    /\ StatsIdle
    /\ CliIdle
    /\ UrlIdle
    /\ ReportIdle
    /\ PluginIdle

\* const results = analyzeAllComponents(components, onProgress)
AnalyzeAll ==
    /\ apc = "input"
    /\ \E k \in {firstThrow(components, onProgress)} :
          IF k = 0
          THEN /\ results' = analyzeAllComponents(components)
               /\ progress' = recorded(components, onProgress, Len(components))
               /\ apc' = "batch"
               /\ UNCHANGED thrown
          ELSE /\ thrown' = <<escaping(onProgress, k)>>
               /\ progress' = recorded(components, onProgress, k)
               /\ apc' = "threw"
               /\ UNCHANGED results
    /\ components' = inputAfterAnalysis(components)
    /\ UNCHANGED <<onProgress, statsVars, cliVars, urlVars, reportVars, pluginVars>>

SpecBatch == InitBatch /\ [][AnalyzeAll]_vars

\* Either entry point of the analyzer, called on a list of components.
NextAnalyzer ==
    \/ AnalyzeComponent
    \/ AnalyzeAll

SpecAnalyzer == InitBatch /\ [][NextAnalyzer]_vars

(***************************************************************************)
(* IEEE-754 binary64 arithmetic for Math.round((passed / total) * 100).    *)
(* A positive double is [hi, mid, lo, exp]: its 53 significand bits are    *)
(* the 5 bits of hi (16..31, leading bit set) followed by the 24 bits of   *)
(* mid and the 24 bits of lo, and its value is                             *)
(* (hi * 2^48 + mid * 2^24 + lo) * 2^(exp - 52).  Every operation rounds   *)
(* to nearest, ties to even.  Exact for divisors below 128.                *)
(***************************************************************************)
Limb == Pow2(24)

\* The double nearest to (significand + 1 if roundUp) * 2^(exp - 52)
RoundedDouble(hi, mid, lo, exp, roundUp) ==
    LET lo1 == IF roundUp THEN lo + 1 ELSE lo
        mid1 == mid + (lo1 \div Limb)
        hi1 == hi + (mid1 \div Limb)
    IN  IF hi1 = 32
        THEN [hi |-> 16, mid |-> 0, lo |-> 0, exp |-> exp + 1]
        ELSE [hi |-> hi1, mid |-> mid1 % Limb, lo |-> lo1 % Limb, exp |-> exp]

\* The shift s >= 0 with t <= p * 2^s < 2t, for 0 < p <= t
RECURSIVE Normalizer(_, _)
Normalizer(p, t) == IF p >= t THEN 0 ELSE 1 + Normalizer(2 * p, t)

\* p / t for integers 0 < p <= t: long division, 5 + 24 + 24 quotient bits
DoubleDivide(p, t) ==
    LET s == Normalizer(p, t)
        q == p * Pow2(s)
        hi == (q * 16) \div t
        r1 == (q * 16) % t
        mid == (r1 * Limb) \div t
        r2 == (r1 * Limb) % t
        lo == (r2 * Limb) \div t
        r3 == (r2 * Limb) % t
    IN  RoundedDouble(hi, mid, lo, -s, 2 * r3 > t \/ (2 * r3 = t /\ lo % 2 = 1))

\* x * 100: the exact product has 6 or 7 bits more than a significand holds
DoubleTimes100(x) ==
    LET l == x.lo * 100
        m == (x.mid * 100) + (l \div Limb)
        h == (x.hi * 100) + (m \div Limb)
        extra == IF h >= 2048 THEN 7 ELSE 6
        cut == Pow2(extra)
        m0 == m % Limb
        l0 == l % Limb
        hi == h \div cut
        mid == ((h % cut) * (Limb \div cut)) + (m0 \div cut)
        lo == ((m0 % cut) * (Limb \div cut)) + (l0 \div cut)
        dropped == l0 % cut
    IN  RoundedDouble(hi, mid, lo, x.exp + extra,
                      2 * dropped > cut \/ (2 * dropped = cut /\ lo % 2 = 1))

\* Math.round(x) = floor(x + 0.5) for a positive double below 2^12
MathRound(x) ==
    LET top == (x.hi * 256) + (x.mid \div 65536)   \* the leading 13 bits
    IN  IF x.exp < -1 THEN 0
        ELSE IF x.exp = -1 THEN 1
        ELSE (top \div Pow2(12 - x.exp)) + ((top \div Pow2(11 - x.exp)) % 2)

(***************************************************************************)
(* Aggregate score helpers: cli/reporters and the plugin message handler.  *)
(***************************************************************************)
\* The statuses the reporters tell apart (statusIcon, htmlStatusBadge).
Statuses == {"pass", "fail", "warning"}

AuditCheck(label, status) == [check |-> label, status |-> status, suggestion |-> ""]

\* Math.round((passed / total) * 100) for 0 <= passed <= total, total > 0
percentOf(passed, total) ==
    IF passed = 0 THEN 0 ELSE MathRound(DoubleTimes100(DoubleDivide(passed, total)))

\* calculateAuditStats counting every check that did not pass as failed.
calculateAuditStatsFailedAsNotPass(cs) ==
    IF Len(cs) = 0
    THEN [score |-> 100, passed |-> 0, warnings |-> 0, failed |-> 0, total |-> 0]
    ELSE LET passed == countStatus(cs, "pass")
             failed == Len(cs) - countStatus(cs, "pass")
             total == Len(cs)
         IN  [score |-> percentOf(passed, total), passed |-> passed, warnings |-> 0,
              failed |-> failed, total |-> total]

calculateAuditStats(cs) ==
    IF Len(cs) = 0
    THEN [score |-> 100, passed |-> 0, warnings |-> 0, failed |-> 0, total |-> 0]
    ELSE LET passed == countStatus(cs, "pass")
             failed == countStatus(cs, "fail")
             total == Len(cs)
         IN  [score |-> percentOf(passed, total), passed |-> passed, warnings |-> 0,
              failed |-> failed, total |-> total]

calculateComponentStats(cs) ==
    IF Len(cs) = 0
    THEN [score |-> 100, passed |-> 0, failed |-> 0, total |-> 0]
    ELSE LET passed == countStatus(cs, "pass")
             failed == countStatus(cs, "fail")
             total == Len(cs)
         IN  [score |-> percentOf(passed, total), passed |-> passed,
              failed |-> failed, total |-> total]

\* The message handler's own copies of the two helpers.
pluginCalculateAuditStats(cs) ==
    IF Len(cs) = 0
    THEN [score |-> 100, passed |-> 0, warnings |-> 0, failed |-> 0, total |-> 0]
    ELSE LET passed == countStatus(cs, "pass")
             failed == countStatus(cs, "fail")
             total == Len(cs)
         IN  [score |-> percentOf(passed, total), passed |-> passed, warnings |-> 0,
              failed |-> failed, total |-> total]

pluginCalculateComponentStats(cs) ==
    IF Len(cs) = 0
    THEN [score |-> 100, passed |-> 0, failed |-> 0, total |-> 0]
    ELSE LET passed == countStatus(cs, "pass")
             failed == countStatus(cs, "fail")
             total == Len(cs)
         IN  [score |-> percentOf(passed, total), passed |-> passed,
              failed |-> failed, total |-> total]

\* passed checks followed by failed checks
PassFailList(passed, failed) ==
    [i \in 1..(passed + failed) |->
        AuditCheck("check", IF i <= passed THEN "pass" ELSE "fail")]

\* Every list of at most MaxMixedChecks checks of any status, and every
\* list of at most MaxChecks checks that pass or fail.
CheckLists ==
    SeqsUpTo({AuditCheck("check", st) : st \in Statuses}, MaxMixedChecks)
    \cup {PassFailList(n - f, f) : <<n, f>> \in {x \in (0..MaxChecks) \X (0..MaxChecks) : x[2] <= x[1]}}

AnalyzerIdle ==
    /\ components = <<>> /\ results = <<>> /\ onProgress = NoCallback
    /\ progress = <<>> /\ thrown = <<>> /\ apc = "idle"

InitStats ==
    /\ checks \in CheckLists
    /\ stats = <<>>
    /\ helper = "none"
    /\ AnalyzerIdle
    /\ CliIdle
    /\ UrlIdle
    /\ ReportIdle
    /\ PluginIdle

CalculateAuditStats ==
    /\ helper = "none"
    /\ stats' = <<calculateAuditStats(checks)>>
    /\ helper' = "calculateAuditStats"
    /\ UNCHANGED <<checks, analyzerVars, cliVars, urlVars, reportVars, pluginVars>>

CalculateComponentStats ==
    /\ helper = "none"
    /\ stats' = <<calculateComponentStats(checks)>>
    /\ helper' = "calculateComponentStats"
    /\ UNCHANGED <<checks, analyzerVars, cliVars, urlVars, reportVars, pluginVars>>

PluginCalculateAuditStats ==
    /\ helper = "none"
    /\ stats' = <<pluginCalculateAuditStats(checks)>>
    /\ helper' = "plugin.calculateAuditStats"
    /\ UNCHANGED <<checks, analyzerVars, cliVars, urlVars, reportVars, pluginVars>>

PluginCalculateComponentStats ==
    /\ helper = "none"
    /\ stats' = <<pluginCalculateComponentStats(checks)>>
    /\ helper' = "plugin.calculateComponentStats"
    /\ UNCHANGED <<checks, analyzerVars, cliVars, urlVars, reportVars, pluginVars>>

NextStats ==
    \/ CalculateAuditStats
    \/ CalculateComponentStats
    \/ PluginCalculateAuditStats
    \/ PluginCalculateComponentStats

SpecStats == InitStats /\ [][NextStats]_vars

(***************************************************************************)
(* Strings of the command line.  Every string is drawn from a finite       *)
(* vocabulary, and the tests the code applies to an argument as a whole    *)
(* (startsWith, endsWith of a file name) are decided on that vocabulary.   *)
(***************************************************************************)
Flags ==
    {"--file-key", "-f", "--url", "-u", "--node-id", "-n", "--token", "-t",
     "--output", "-o", "--format", "--audit-type", "--help", "-h"}

\* arg.startsWith('-')
startsWithDash(s) == s \in Flags

\* output.endsWith('.json')
endsWithJson(s) == s \in {"report.json"}

\* output.endsWith('.html') || output.endsWith('.htm')
endsWithHtml(s) == s \in {"report.html", "report.htm"}

\* nodeId.replace(/:/g, '-')
colonsToHyphens(s) ==
    CASE s = "1:1" -> "1-1" [] s = "1:2" -> "1-2" [] s = "1:3" -> "1-3"
      [] s = "1:4" -> "1-4" [] s = "1:5" -> "1-5" [] s = "1:6" -> "1-6"
      [] OTHER -> s

(***************************************************************************)
(* Text.  Where the code looks inside a string (new URL, split, endsWith,  *)
(* replace) the string is a sequence of symbols; a symbol is one of the    *)
(* characters the code tells apart (/ \ ? & = - : . and ://) or a run of   *)
(* other characters.                                                       *)
(***************************************************************************)
\* The first position from i on that holds a symbol of S, Len(text) + 1 if none
RECURSIVE indexOf(_, _, _)
indexOf(text, S, i) ==
    IF i > Len(text) \/ text[i] \in S THEN i ELSE indexOf(text, S, i + 1)

\* String.prototype.split at the symbols of S
RECURSIVE split(_, _)
split(text, S) ==
    LET k == indexOf(text, S, 1)
    IN  IF k > Len(text) THEN <<text>>
        ELSE <<SubSeq(text, 1, k - 1)>> \o split(SubSeq(text, k + 1, Len(text)), S)

\* String.prototype.endsWith
endsWith(text, suffix) ==
    /\ Len(text) >= Len(suffix)
    /\ SubSeq(text, Len(text) - Len(suffix) + 1, Len(text)) = suffix

\* rawNodeId.replace(/-/, ':'), the regular expression without its g flag
hyphensToColonsOnce(text) ==
    LET k == indexOf(text, {"-"}, 1)
    IN  [i \in 1..Len(text) |-> IF i = k THEN ":" ELSE text[i]]

\* rawNodeId.replace(/-/g, ':')
hyphensToColons(text) == [i \in 1..Len(text) |-> IF text[i] = "-" THEN ":" ELSE text[i]]

\* url.replace(/\\([?=&])/g, '$1'): drops a backslash in front of ? = or &
RECURSIVE stripShellEscapes(_)
stripShellEscapes(text) ==
    IF text = <<>> THEN <<>>
    ELSE IF Head(text) = "\\" /\ Len(text) >= 2 /\ text[2] \in {"?", "=", "&"}
    THEN stripShellEscapes(Tail(text))
    ELSE <<Head(text)>> \o stripShellEscapes(Tail(text))

(***************************************************************************)
(* new URL(text) for an http(s) URL (WHATWG URL): the host runs up to the  *)
(* first / \ or ?, the path up to the first ?, a backslash of the path is  *)
(* read as a slash, the rest is the query.  ok is FALSE when new URL       *)
(* throws: no scheme, or no host.                                          *)
(***************************************************************************)
NewURL(text) ==
    LET ok == /\ Len(text) >= 3
              /\ text[1] \in {"https", "http"}
              /\ text[2] = "://"
              /\ text[3] \notin {"/", "\\", "?"}
        hostEnd == indexOf(text, {"/", "\\", "?"}, 3)
        pathEnd == indexOf(text, {"?"}, hostEnd)
        path == SubSeq(text, hostEnd, pathEnd - 1)
    IN  IF ~ok
        THEN [ok |-> FALSE, hostname |-> <<>>, pathname |-> <<>>, search |-> <<>>]
        ELSE [ok |-> TRUE,
              hostname |-> SubSeq(text, 3, hostEnd - 1),
              pathname |-> IF path = <<>> THEN <<"/">>
                           ELSE [i \in 1..Len(path) |-> IF path[i] = "\\" THEN "/" ELSE path[i]],
              search |-> SubSeq(text, pathEnd + 1, Len(text))]

\* parsed.searchParams: the name=value pairs of the query, split at &
searchParams(search) ==
    LET pairs == SelectSeq(split(search, {"&"}), LAMBDA q : q # <<>>)
    IN  [i \in 1..Len(pairs) |->
            [name |-> SubSeq(pairs[i], 1, indexOf(pairs[i], {"="}, 1) - 1),
             value |-> SubSeq(pairs[i], indexOf(pairs[i], {"="}, 1) + 1, Len(pairs[i]))]]

\* parsed.searchParams.get(name): <<>> for null, else <<the first value>>
searchParamsGet(search, name) ==
    LET params == searchParams(search)
        hits == {i \in 1..Len(params) : params[i].name = name}
    IN  IF hits = {} THEN <<>>
        ELSE <<params[CHOOSE i \in hits : \A j \in hits : i <= j].value>>

(***************************************************************************)
(* cli/url-parser: parseFigmaUrl, and its variant that first strips the    *)
(* shell escapes.  nodeId is <<>> when undefined.                          *)
(***************************************************************************)
UrlError(message) == [threw |-> TRUE, error |-> message, fileKey |-> <<>>, nodeId |-> <<>>]

\* parseFigmaUrl from the hostname test on
figmaUrlParts(parsed) ==
    LET segments == SelectSeq(split(parsed.pathname, {"/"}), LAMBDA seg : seg # <<>>)
        hits == {i \in 1..Len(segments) : segments[i] \in {<<"design">>, <<"file">>}}
        prefixIndex == IF hits = {} THEN 0 ELSE CHOOSE i \in hits : \A j \in hits : i <= j
        rawNodeId == searchParamsGet(parsed.search, <<"node", "-", "id">>)
    IN  IF ~parsed.ok THEN UrlError("Invalid URL")
        ELSE IF ~endsWith(parsed.hostname, <<"figma", ".", "com">>)
        THEN UrlError("Not a Figma URL")
        ELSE IF prefixIndex = 0 \/ prefixIndex + 1 > Len(segments)
        THEN UrlError("Could not extract file key from URL")
        ELSE [threw |-> FALSE, error |-> "",
              fileKey |-> segments[prefixIndex + 1],
              nodeId |-> IF rawNodeId # <<>> /\ rawNodeId[1] # <<>>
                         THEN <<hyphensToColons(rawNodeId[1])>>
                         ELSE <<>>]

\* cli/url-parser.ts
parseFigmaUrl(text) == figmaUrlParts(NewURL(text))

\* the variant that cleans the string first
parseFigmaUrlUnescaping(text) == figmaUrlParts(NewURL(stripShellEscapes(text)))

(***************************************************************************)
(* The strings of the command line are atoms; Chars gives the text of a    *)
(* string that is parsed, Str the string of a text that was parsed out.    *)
(***************************************************************************)
Chars(s) ==
    IF s = "https://www.figma.com/design/urlKey123/Library?node-id=1-2"
    THEN <<"https", "://", "www", ".", "figma", ".", "com", "/", "design", "/", "urlKey123",
           "/", "Library", "?", "node", "-", "id", "=", "1", "-", "2">>
    ELSE <<s>>

Str(text) ==
    CASE text = <<"1", ":", "2">> -> "1:2"
      [] Len(text) = 1 -> text[1]
      [] OTHER -> ""

(***************************************************************************)
(* cli/index: parseArgs.  argv is process.argv from index 2 on; an         *)
(* optional string (output) is <<>> when undefined.                        *)
(***************************************************************************)
defaultArgs(e) ==
    [fileKey |-> e.FIGMA_FILE_KEY,
     url |-> "",
     nodeId |-> "",
     token |-> e.FIGMA_PERSONAL_ACCESS_TOKEN,
     output |-> <<>>,
     format |-> "console",
     auditType |-> "system",
     help |-> FALSE]

\* next ?? d, for next = argv[i + 1]
nextOr(av, i, d) == IF i + 1 <= Len(av) THEN av[i + 1] ELSE d

\* One turn of the for loop: the switch on argv[i]; consumed is 2 when the
\* case ran its own i++
parseArg(av, i, a) ==
    LET arg == av[i]
    IN  CASE arg \in {"--file-key", "-f"} ->
               [consumed |-> 2, args |-> [a EXCEPT !.fileKey = nextOr(av, i, "")]]
          [] arg \in {"--url", "-u"} ->
               [consumed |-> 2, args |-> [a EXCEPT !.url = nextOr(av, i, "")]]
          [] arg \in {"--node-id", "-n"} ->
               [consumed |-> 2, args |-> [a EXCEPT !.nodeId = nextOr(av, i, "")]]
          [] arg \in {"--token", "-t"} ->
               [consumed |-> 2, args |-> [a EXCEPT !.token = nextOr(av, i, "")]]
          [] arg \in {"--output", "-o"} ->
               [consumed |-> 2, args |-> [a EXCEPT !.output = <<nextOr(av, i, "")>>]]
          [] arg = "--format" ->
               [consumed |-> 2, args |-> [a EXCEPT !.format = nextOr(av, i, "console")]]
          [] arg = "--audit-type" ->
               [consumed |-> 2, args |-> [a EXCEPT !.auditType = nextOr(av, i, "system")]]
          [] arg \in {"--help", "-h"} ->
               [consumed |-> 1, args |-> [a EXCEPT !.help = TRUE]]
          [] OTHER ->
               [consumed |-> 1,
                args |-> IF ~startsWithDash(arg) /\ a.fileKey = ""
                         THEN [a EXCEPT !.fileKey = arg]
                         ELSE a]

RECURSIVE parseArgsLoop(_, _, _)
parseArgsLoop(av, i, a) ==
    IF i > Len(av) THEN a
    ELSE LET turn == parseArg(av, i, a)
         IN  parseArgsLoop(av, i + turn.consumed, turn.args)

\* args.output is truthy
hasOutput(a) == a.output # <<>> /\ a.output[1] # ""

\* [threw, args]: threw when parseFigmaUrl throws, else args = <<the CliArgs>>
parseArgs(av, e) ==
    CHOOSE returned \in UNION {
        {LET resolved ==
                 IF a.url = "" THEN a
                 ELSE [a EXCEPT !.fileKey = IF a.fileKey = "" THEN Str(parts.fileKey)
                                            ELSE a.fileKey,
                                !.nodeId = IF a.nodeId = "" /\ parts.nodeId # <<>>
                                           THEN Str(parts.nodeId[1])
                                           ELSE a.nodeId]
             format ==
                 IF hasOutput(resolved) /\ resolved.format = "console"
                 THEN IF endsWithJson(resolved.output[1]) THEN "json"
                      ELSE IF endsWithHtml(resolved.output[1]) THEN "html"
                      ELSE resolved.format
                 ELSE resolved.format
         IN  IF a.url # "" /\ parts.threw
             THEN [threw |-> TRUE, args |-> <<>>]
             ELSE [threw |-> FALSE, args |-> <<[resolved EXCEPT !.format = format]>>] :
            parts \in {parseFigmaUrl(Chars(a.url))}} :
        a \in {parseArgsLoop(av, 1, defaultArgs(e))}} : TRUE

(***************************************************************************)
(* cli/index: main, runComplexityAudit and outputComplexity.               *)
(***************************************************************************)
Request(method, a) == [method |-> method, fileKey |-> a.fileKey, token |-> a.token]

Report(target, format, body) == [target |-> target, format |-> format, body |-> body]

\* What an output step did: the reports it emitted, what it printed, and
\* exit = <<code>> when it ended the process.
Emitted(rs, printed) == [reports |-> rs, stdio |-> printed, exit |-> <<>>]
Died(rs, printed, code) == [reports |-> rs, stdio |-> printed, exit |-> <<code>>]

\* reportToJsonFile / reportToHtmlFile and their complexity twins:
\* writeFileSync throws when the path cannot be written, main() rejects and
\* the catch handler exits with 1.
writeReport(before, format, body, a, written, writeOk) ==
    IF writeOk
    THEN Emitted(Append(before, Report(a.output[1], format, body)), <<written>>)
    ELSE Died(before, <<"Fatal error">>, 1)

\* The html case without an output path prints the report, as the json case does.
outputSwitchHtmlToStdout(body, a, writeOk) ==
    CASE a.format = "json" ->
           IF hasOutput(a)
           THEN writeReport(<<>>, "json", body, a, "JSON report written", writeOk)
           ELSE Emitted(<<Report("stdout", "json", body)>>, <<>>)
      [] a.format = "html" ->
           IF hasOutput(a)
           THEN writeReport(<<>>, "html", body, a, "HTML report written", writeOk)
           ELSE Emitted(<<Report("stdout", "html", body)>>, <<>>)
      [] OTHER ->
           IF hasOutput(a)
           THEN writeReport(<<Report("stdout", "console", body)>>, "json", body, a,
                            "JSON report written", writeOk)
           ELSE Emitted(<<Report("stdout", "console", body)>>, <<>>)

\* The output switch of main() and of outputComplexity()
outputSwitch(body, a, writeOk) ==
    CASE a.format = "json" ->
           IF hasOutput(a)
           THEN writeReport(<<>>, "json", body, a, "JSON report written", writeOk)
           ELSE Emitted(<<Report("stdout", "json", body)>>, <<>>)
      [] a.format = "html" ->
           IF hasOutput(a)
           THEN writeReport(<<>>, "html", body, a, "HTML report written", writeOk)
           ELSE Died(<<>>, <<"HTML format requires --output path">>, 1)
      [] OTHER ->
           IF hasOutput(a)
           THEN writeReport(<<Report("stdout", "console", body)>>, "json", body, a,
                            "JSON report written", writeOk)
           ELSE Emitted(<<Report("stdout", "console", body)>>, <<>>)

outputComplexity(rs, a, writeOk) == outputSwitch(rs, a, writeOk)

\* Every validator runs, whatever the audit type.
runValidatorsAll(auditType, v) ==
    [collectionChecks |-> v.collection,
     textStyleChecks |-> v.sync \o v.bindings,
     componentChecks |-> v.components]

\* The check lists main() keeps of what the four validators returned.
runValidators(auditType, v) ==
    [collectionChecks |->
        IF auditType \in {"system", "variables-styles"} THEN v.collection ELSE <<>>,
     textStyleChecks |->
        IF auditType \in {"system", "variables-styles"} THEN v.sync \o v.bindings ELSE <<>>,
     componentChecks |->
        IF auditType \in {"system", "components"} THEN v.components ELSE <<>>]

\* const results: AuditResults = { ... } (the timestamp is left out)
buildResults(a, file, c) ==
    [fileKey |-> a.fileKey,
     fileName |-> file.name,
     scores |-> [overall |-> calculateAuditStats(
                                 c.collectionChecks \o c.textStyleChecks \o c.componentChecks),
                 collection |-> calculateAuditStats(c.collectionChecks),
                 textStyle |-> calculateAuditStats(c.textStyleChecks),
                 component |-> calculateComponentStats(c.componentChecks)],
     collectionStructure |-> c.collectionChecks,
     textStyleSync |-> c.textStyleChecks,
     componentBindings |-> c.componentChecks]

\* The exit code of main() after the output switch, ignoring failed checks.
exitAfterOutputIgnoringFailed(r, out) ==
    IF out.exit # <<>> THEN out.exit[1] ELSE 0

\* The exit code of main() after the output switch: the code the switch
\* exited with, else 2 when a check failed, else 0 as main() returns.
exitAfterOutput(r, out) ==
    IF out.exit # <<>> THEN out.exit[1]
    ELSE IF r.scores.overall.failed > 0 THEN 2
    ELSE 0

\* buildFigmaUrl: the pieces of the template literal, in order
buildFigmaUrl(fileKey, nodeId) ==
    <<"https://www.figma.com/design/", fileKey, "?node-id=", colonsToHyphens(nodeId)>>

withFigmaUrl(fileKey, r) == r @@ [figmaUrl |-> buildFigmaUrl(fileKey, r.nodeId)]

\* for (const r of results) r.figmaUrl = buildFigmaUrl(fileKey, r.nodeId)
withFigmaUrls(fileKey, rs) == [i \in 1..Len(rs) |-> withFigmaUrl(fileKey, rs[i])]

(***************************************************************************)
(* A run of the CLI.  The steps are the stretches of main() between its    *)
(* awaits; the Figma API answers, the validators' verdicts and the file    *)
(* system's answer to a write are chosen by the environment.               *)
(***************************************************************************)
Groups(options) == {<<>>} \cup options

ArgvUniverse ==
    {k \o t \o ty \o f \o o \o h \o n \o u :
        k \in Groups({<<"--file-key", "abc123DEF">>}),
        t \in Groups({<<"--token", "figd_cli">>}),
        ty \in Groups({<<"--audit-type", "variables-styles">>,
                       <<"--audit-type", "components">>,
                       <<"--audit-type", "complexity">>}),
        f \in Groups({<<"--format", "json">>, <<"--format", "html">>}),
        o \in Groups({<<"-o", "report.json">>, <<"--output", "report.html">>}),
        h \in Groups({<<"--help">>}),
        n \in Groups({<<"-n", "1:2">>}),
        u \in Groups({<<"--url", "https://www.figma.com/design/urlKey123/Library?node-id=1-2">>,
                      <<"-u", "not a url">>})}

EnvUniverse ==
    [FIGMA_FILE_KEY : {"", "envKey"}, FIGMA_PERSONAL_ACCESS_TOKEN : {"", "figd_env"}]

FileResponses == {[name |-> "Design System"]}

\* What a validator may return: no check, a passing check, or a passing
\* and a failing check.
ValidatorOutcomes(label) ==
    {<<>>, <<AuditCheck(label, "pass")>>, <<AuditCheck(label, "pass"), AuditCheck(label, "fail")>>}

ValidatorVerdicts ==
    [collection : ValidatorOutcomes("collection"),
     sync : ValidatorOutcomes("sync"),
     bindings : ValidatorOutcomes("bindings"),
     components : ValidatorOutcomes("components")]

\* findComponents(buildLintData(fileResponse).pages)
ComponentLists ==
    {<<>>,
     <<Component(ButtonSet, "Components")>>,
     <<Component(IconSlot, "Components"), Component(HugeSet, "Icons")>>}

\* nodesResponse.nodes[nodeId]?.document after adaptNodeStandalone, <<>> when missing
NodeEntries == {<<>>, <<IconSlot>>}

InitCli ==
    /\ argv \in ArgvUniverse
    /\ env \in EnvUniverse
    /\ args = <<>>
    /\ cpc = "start"
    /\ exitCode = <<>>
    /\ requests = <<>>
    /\ fileResponse = <<>>
    /\ stdio = <<>>
    /\ reports = <<>>
    /\ audit = <<>>
    /\ AnalyzerIdle
    /\ StatsIdle
    /\ UrlIdle
    /\ ReportIdle
    /\ PluginIdle

\* process.exit(code), or main() settling
Exit(code) == cpc' = "exited" /\ exitCode' = <<code>>

\* main() up to its first await, without its test of args.token
MainStartWithoutTokenCheck ==
    /\ cpc = "start"
    /\ LET p == parseArgs(argv, env)
       IN  IF p.threw
           THEN /\ stdio' = Append(stdio, "Fatal error")
                /\ Exit(1)
                /\ UNCHANGED <<args, requests>>
           ELSE LET a == p.args[1]
                IN  /\ args' = p.args
                    /\ IF a.help
                       THEN stdio' = Append(stdio, "help") /\ Exit(0) /\ UNCHANGED requests
                       ELSE IF a.fileKey = ""
                       THEN /\ stdio' = Append(stdio, "Error: Figma file key is required")
                            /\ Exit(1)
                            /\ UNCHANGED requests
                       ELSE IF a.auditType = "complexity" /\ a.nodeId # ""
                       THEN /\ stdio' = Append(stdio, "Fetching node")
                            /\ requests' = Append(requests, Request("getNodes", a))
                            /\ cpc' = "complexity.getNodes"
                            /\ UNCHANGED exitCode
                       ELSE IF a.auditType = "complexity"
                       THEN /\ stdio' = Append(stdio, "Fetching Figma file")
                            /\ requests' = Append(requests, Request("getFile", a))
                            /\ cpc' = "complexity.getFile"
                            /\ UNCHANGED exitCode
                       ELSE /\ stdio' = Append(stdio, "Fetching Figma file")
                            /\ requests' = Append(requests, Request("getFile", a))
                            /\ cpc' = "getFile"
                            /\ UNCHANGED exitCode
    /\ UNCHANGED <<argv, env, fileResponse, reports, audit, analyzerVars, statsVars, urlVars, reportVars, pluginVars>>

\* main() up to its first await
MainStart ==
    /\ cpc = "start"
    /\ LET p == parseArgs(argv, env)
       IN  IF p.threw
           THEN /\ stdio' = Append(stdio, "Fatal error")
                /\ Exit(1)
                /\ UNCHANGED <<args, requests>>
           ELSE LET a == p.args[1]
                IN  /\ args' = p.args
                    /\ IF a.help
                       THEN stdio' = Append(stdio, "help") /\ Exit(0) /\ UNCHANGED requests
                       ELSE IF a.fileKey = ""
                       THEN /\ stdio' = Append(stdio, "Error: Figma file key is required")
                            /\ Exit(1)
                            /\ UNCHANGED requests
                       ELSE IF a.token = ""
                       THEN /\ stdio' = Append(stdio, "Error: Figma token is required")
                            /\ Exit(1)
                            /\ UNCHANGED requests
                       ELSE IF a.auditType = "complexity" /\ a.nodeId # ""
                       THEN /\ stdio' = Append(stdio, "Fetching node")
                            /\ requests' = Append(requests, Request("getNodes", a))
                            /\ cpc' = "complexity.getNodes"
                            /\ UNCHANGED exitCode
                       ELSE IF a.auditType = "complexity"
                       THEN /\ stdio' = Append(stdio, "Fetching Figma file")
                            /\ requests' = Append(requests, Request("getFile", a))
                            /\ cpc' = "complexity.getFile"
                            /\ UNCHANGED exitCode
                       ELSE /\ stdio' = Append(stdio, "Fetching Figma file")
                            /\ requests' = Append(requests, Request("getFile", a))
                            /\ cpc' = "getFile"
                            /\ UNCHANGED exitCode
    /\ UNCHANGED <<argv, env, fileResponse, reports, audit, analyzerVars, statsVars, urlVars, reportVars, pluginVars>>

\* await client.getFile(...) resolves in the standard audit
GetFileResolved ==
    /\ cpc = "getFile"
    /\ \E file \in FileResponses :
          /\ fileResponse' = <<file>>
          /\ stdio' = stdio \o <<"File", "Fetching variables">>
          /\ requests' = Append(requests, Request("getLocalVariables", args[1]))
          /\ cpc' = "getLocalVariables"
    /\ UNCHANGED <<argv, env, args, exitCode, reports, audit, analyzerVars, statsVars, urlVars, reportVars, pluginVars>>

\* An awaited request outside a try block rejects: main().catch exits with 1
RequestRejected ==
    /\ cpc \in {"getFile", "complexity.getNodes", "complexity.getFile"}
    /\ stdio' = Append(stdio, "Fatal error")
    /\ Exit(1)
    /\ UNCHANGED <<argv, env, args, requests, fileResponse, reports, audit,
                   analyzerVars, statsVars, urlVars, reportVars, pluginVars>>

\* main() from the settling of getLocalVariables to its end: what it builds,
\* prints and emits, and the code it exits with
finishAudit(a, file, v, writeOk) ==
    LET r == buildResults(a, file, runValidators(a.auditType, v))
        out == outputSwitch(r, a, writeOk)
    IN  [audit |-> r,
         stdio |-> <<"Discovered components", "Running audit">> \o out.stdio,
         reports |-> out.reports,
         exit |-> exitAfterOutput(r, out)]

\* await client.getLocalVariables(...) resolves
GetLocalVariablesResolved ==
    /\ cpc = "getLocalVariables"
    /\ \E v \in ValidatorVerdicts, writeOk \in BOOLEAN :
          \E done \in {finishAudit(args[1], fileResponse[1], v, writeOk)} :
              /\ audit' = <<done.audit>>
              /\ stdio' = stdio \o <<"Found collections and variables">> \o done.stdio
              /\ reports' = reports \o done.reports
              /\ Exit(done.exit)
    /\ UNCHANGED <<argv, env, args, requests, fileResponse, analyzerVars, statsVars, urlVars, reportVars, pluginVars>>

\* await client.getLocalVariables(...) rejects and nothing catches it.
GetLocalVariablesRejectedUncaught ==
    /\ cpc = "getLocalVariables"
    /\ stdio' = Append(stdio, "Fatal error")
    /\ Exit(1)
    /\ UNCHANGED <<argv, env, args, requests, fileResponse, reports, audit,
                   analyzerVars, statsVars, urlVars, reportVars, pluginVars>>

\* await client.getLocalVariables(...) rejects: the catch block warns and
\* sets variablesResponse = undefined
GetLocalVariablesRejected ==
    /\ cpc = "getLocalVariables"
    /\ \E v \in ValidatorVerdicts, writeOk \in BOOLEAN :
          \E done \in {finishAudit(args[1], fileResponse[1], v, writeOk)} :
              /\ audit' = <<done.audit>>
              /\ stdio' = stdio \o <<"Could not fetch variables">> \o done.stdio
              /\ reports' = reports \o done.reports
              /\ Exit(done.exit)
    /\ UNCHANGED <<argv, env, args, requests, fileResponse, analyzerVars, statsVars, urlVars, reportVars, pluginVars>>

\* runComplexityAudit after await client.getNodes(...)
ComplexityNodesResolved ==
    /\ cpc = "complexity.getNodes"
    /\ \E entry \in NodeEntries, writeOk \in BOOLEAN :
          IF entry = <<>>
          THEN /\ stdio' = Append(stdio, "Node not found")
               /\ Exit(1)
               /\ UNCHANGED reports
          ELSE \E result \in {withFigmaUrl(args[1].fileKey,
                                 analyzeComponentComplexity(Component(entry[1], "")))} :
               \E out \in {outputComplexity(<<result>>, args[1], writeOk)} :
                   /\ stdio' = stdio \o out.stdio
                   /\ reports' = reports \o out.reports
                   /\ Exit(IF out.exit # <<>> THEN out.exit[1] ELSE 0)
    /\ UNCHANGED <<argv, env, args, requests, fileResponse, audit, analyzerVars, statsVars, urlVars, reportVars, pluginVars>>

\* runComplexityAudit after await client.getFile(...)
ComplexityFileResolved ==
    /\ cpc = "complexity.getFile"
    /\ \E file \in FileResponses, comps \in ComponentLists, writeOk \in BOOLEAN :
          /\ fileResponse' = <<file>>
          /\ IF Len(comps) = 0
             THEN /\ stdio' = stdio \o <<"File", "No components found in this file.">>
                  /\ Exit(0)
                  /\ UNCHANGED reports
             ELSE \E rs \in {withFigmaUrls(args[1].fileKey, analyzeAllComponents(comps))} :
                  \E out \in {outputComplexity(rs, args[1], writeOk)} :
                      /\ stdio' = stdio \o <<"File", "Analysing components">>
                                       \o [i \in 1..Len(comps) |-> "progress"] \o out.stdio
                      /\ reports' = reports \o out.reports
                      /\ Exit(IF out.exit # <<>> THEN out.exit[1] ELSE 0)
    /\ UNCHANGED <<argv, env, args, requests, audit, analyzerVars, statsVars, urlVars, reportVars, pluginVars>>

NextCli ==
    \/ MainStart
    \/ GetFileResolved
    \/ RequestRejected
    \/ GetLocalVariablesResolved
    \/ GetLocalVariablesRejected
    \/ ComplexityNodesResolved
    \/ ComplexityFileResolved

SpecCli == InitCli /\ [][NextCli]_vars

(***************************************************************************)
(* parseArgs called on a command line: --format and --output in either    *)
(* order, each absent, given with a value, or given last without one.      *)
(***************************************************************************)
FormatOptions ==
    Groups({<<"--format", "console">>, <<"--format", "json">>, <<"--format", "html">>,
            <<"--format">>})

OutputOptions ==
    Groups({<<"-o", "report.json">>, <<"--output", "report.html">>, <<"-o", "report.htm">>,
            <<"-o", "report.txt">>, <<"--output", "">>})

FormatArgvs ==
    {k \o f \o o : k \in Groups({<<"abc123DEF">>, <<"-f", "abc123DEF">>}),
                   f \in FormatOptions \ {<<"--format">>}, o \in OutputOptions}
    \cup {k \o o \o f : k \in Groups({<<"abc123DEF">>, <<"-f", "abc123DEF">>}),
                        f \in FormatOptions, o \in OutputOptions}

InitArgs ==
    /\ argv \in FormatArgvs
    /\ env \in EnvUniverse
    /\ args = <<>>
    /\ cpc = "start"
    /\ exitCode = <<>>
    /\ requests = <<>>
    /\ fileResponse = <<>>
    /\ stdio = <<>>
    /\ reports = <<>>
    /\ audit = <<>>
    /\ AnalyzerIdle
    /\ StatsIdle
    /\ UrlIdle
    /\ ReportIdle
    /\ PluginIdle

\* const args = parseArgs(process.argv)
ParseArgs ==
    /\ cpc = "start"
    /\ \E p \in {parseArgs(argv, env)} :
          /\ args' = p.args
          /\ cpc' = IF p.threw THEN "threw" ELSE "parsed"
    /\ UNCHANGED <<argv, env, exitCode, requests, fileResponse, stdio, reports, audit,
                   analyzerVars, statsVars, urlVars, reportVars, pluginVars>>

SpecArgs == InitArgs /\ [][ParseArgs]_vars

(***************************************************************************)
(* parseFigmaUrl called on a string.  The strings are written out from     *)
(* their parts: scheme, host, path segments, query parameters, and the     *)
(* shell escapes a terminal may have left in front of ? and =.             *)
(***************************************************************************)
RECURSIVE Flatten(_)
Flatten(texts) == IF texts = <<>> THEN <<>> ELSE Head(texts) \o Flatten(Tail(texts))

Param(name, value) == [name |-> name, value |-> value]
NodeIdParam(value) == Param(<<"node", "-", "id">>, value)

WriteQuery(params, eq) ==
    Flatten([i \in 1..Len(params) |->
                (IF i > 1 THEN <<"&">> ELSE <<>>) \o params[i].name \o eq \o params[i].value])

WriteUrl(u) ==
    u.scheme \o u.host
    \o Flatten([i \in 1..Len(u.segs) |-> <<"/">> \o u.segs[i]])
    \o (IF u.params = <<>> THEN <<>> ELSE u.mark \o WriteQuery(u.params, u.eq))

UrlHosts ==
    {<<"www", ".", "figma", ".", "com">>, <<"figma", ".", "com">>,
     <<"evil", "figma", ".", "com">>, <<"example", ".", "com">>}

UrlPaths ==
    {<<>>,
     << <<"design">>, <<"abc123DEF">> >>,
     << <<"file">>, <<"abc123DEF">>, <<"My", "-", "File">> >>,
     << <<"design">> >>,
     << <<"proto">>, <<"abc123DEF">> >>,
     << <<"community">>, <<"file">>, <<"abc123DEF">> >>,
     << <<"file">>, <<"design">>, <<"abc123DEF">> >>,
     << <<"abc123DEF">>, <<"design">> >>,
     << <<"design">>, <<>>, <<"abc123DEF">> >>}

UrlQueries ==
    {<<>>,
     << NodeIdParam(<<"1", "-", "2">>) >>,
     << NodeIdParam(<<>>) >>,
     << Param(<<"t">>, <<"x">>), NodeIdParam(<<"12", "-", "34", "-", "5">>) >>,
     << Param(<<"t">>, <<"x">>) >>,
     << NodeIdParam(<<"1", "-", "2">>), NodeIdParam(<<"9">>) >>}

UrlShapes ==
    [scheme : {<<"https", "://">>, <<>>},
     host : UrlHosts,
     segs : UrlPaths,
     params : UrlQueries,
     mark : {<<"?">>, <<"\\", "?">>},
     eq : {<<"=">>, <<"\\", "=">>}]

\* Every string with the parts it was written from.
UrlTexts == {<<WriteUrl(u), u>> : u \in UrlShapes}

InitUrl ==
    /\ deepLink = <<>>
    /\ url \in {t[1] : t \in UrlTexts}
    /\ urlParser = "none"
    /\ urlParts = <<>>
    /\ AnalyzerIdle
    /\ StatsIdle
    /\ CliIdle
    /\ ReportIdle
    /\ PluginIdle

\* parseFigmaUrl(url) of cli/url-parser.ts
ParseFigmaUrl ==
    /\ urlParser \in {"none", "built"}
    /\ urlParser' = "url-parser"
    /\ urlParts' = <<parseFigmaUrl(url)>>
    /\ UNCHANGED <<deepLink, url, analyzerVars, statsVars, cliVars, reportVars, pluginVars>>

\* parseFigmaUrl(url) of the variant that strips the shell escapes
ParseFigmaUrlUnescaping ==
    /\ urlParser \in {"none", "built"}
    /\ urlParser' = "unescaping"
    /\ urlParts' = <<parseFigmaUrlUnescaping(url)>>
    /\ UNCHANGED <<deepLink, url, analyzerVars, statsVars, cliVars, reportVars, pluginVars>>

NextUrl ==
    \/ ParseFigmaUrl
    \/ ParseFigmaUrlUnescaping

SpecUrl == InitUrl /\ [][NextUrl]_vars

(***************************************************************************)
(* buildFigmaUrl followed by parseFigmaUrl: the deep link of a file key    *)
(* and a node id is written as text and handed to either parser.           *)
(***************************************************************************)
\* nodeId.replace(/:/g, '-') on text
colonsToHyphensText(text) == [i \in 1..Len(text) |-> IF text[i] = ":" THEN "-" ELSE text[i]]

\* The deep link without the design segment of the path.
buildFigmaUrlTextNoPrefix(fileKey, nodeId) ==
    <<"https", "://", "www", ".", "figma", ".", "com", "/">>
    \o fileKey \o <<"?", "node", "-", "id", "=">> \o colonsToHyphensText(nodeId)

\* `https://www.figma.com/design/${fileKey}?node-id=${hyphenated}` as text
buildFigmaUrlText(fileKey, nodeId) ==
    <<"https", "://", "www", ".", "figma", ".", "com", "/", "design", "/">>
    \o fileKey \o <<"?", "node", "-", "id", "=">> \o colonsToHyphensText(nodeId)

\* File keys: as Figma issues them, equal to a path prefix the parser looks
\* for, and with a character that ends a path segment or the path.
DeepLinkFileKeys ==
    {<<"abc123DEF">>, <<"urlKey123">>, <<"design">>, <<"file">>,
     <<"a", "/", "b">>, <<"a", "?", "b">>}

\* Node ids made of digits and colons.
DeepLinkNodeIds ==
    {<<"7">>, <<"1", ":", "2">>, <<"0", ":", "1">>, <<"12", ":", "34", ":", "5">>,
     <<"1", ":">>, <<":">>}

InitDeepLink ==
    /\ deepLink \in {<<[fileKey |-> k, nodeId |-> n]>> : k \in DeepLinkFileKeys, n \in DeepLinkNodeIds}
    /\ url = <<>>
    /\ urlParser = "inputs"
    /\ urlParts = <<>>
    /\ AnalyzerIdle
    /\ StatsIdle
    /\ CliIdle
    /\ ReportIdle
    /\ PluginIdle

\* buildFigmaUrl(fileKey, nodeId)
BuildFigmaUrl ==
    /\ urlParser = "inputs"
    /\ url' = buildFigmaUrlText(deepLink[1].fileKey, deepLink[1].nodeId)
    /\ urlParser' = "built"
    /\ UNCHANGED <<deepLink, urlParts, analyzerVars, statsVars, cliVars, reportVars, pluginVars>>

NextDeepLink ==
    \/ BuildFigmaUrl
    \/ ParseFigmaUrl
    \/ ParseFigmaUrlUnescaping

SpecDeepLink == InitDeepLink /\ [][NextDeepLink]_vars

(***************************************************************************)
(* Page names, from discovery to the reports.  A page name, a check label  *)
(* and a suggestion are texts (sequences of symbols, see the URL parser);  *)
(* a markup tag the reporters write is one symbol, its style attribute     *)
(* left out.                                                               *)
(***************************************************************************)
\* The walk of findComponents from index i of a children array on.
RECURSIVE findComponentsWalk(_, _), findComponentsWalkAll(_, _, _)
\* The walk that pushes a node after the nodes below it.
findComponentsWalkPostOrder(node, pageName) ==
    (IF node.hasChildren THEN findComponentsWalkAll(node.children, pageName, 1) ELSE <<>>)
    \o (IF node.type \in {"COMPONENT", "COMPONENT_SET"}
        THEN <<Component(node, pageName)>>
        ELSE <<>>)

findComponentsWalk(node, pageName) ==
    (IF node.type \in {"COMPONENT", "COMPONENT_SET"}
     THEN <<Component(node, pageName)>>
     ELSE <<>>)
    \o (IF node.hasChildren THEN findComponentsWalkAll(node.children, pageName, 1) ELSE <<>>)

findComponentsWalkAll(kids, pageName, i) ==
    IF i > Len(kids)
    THEN <<>>
    ELSE findComponentsWalk(kids[i], pageName) \o findComponentsWalkAll(kids, pageName, i + 1)

findComponents(pgs) ==
    Flatten([p \in 1..Len(pgs) |-> findComponentsWalkAll(pgs[p].children, pgs[p].name, 1)])

\* AuditCheck {check, status, suggestion, pageName?}
PageCheck(label, status, suggestion, pageName) ==
    [check |-> label, status |-> status, suggestion |-> suggestion,
     hasPageName |-> TRUE, pageName |-> pageName]

PlainCheck(label, status, suggestion) ==
    [check |-> label, status |-> status, suggestion |-> suggestion,
     hasPageName |-> FALSE, pageName |-> <<>>]

\* The checks of the component binding validator: one per component, with
\* the verdict given, about the component on its page.
validateAllComponentBindings(comps, verdicts) ==
    [i \in 1..Len(comps) |->
        PageCheck(<<comps[i].node.name, ":", " ", "fill">>, verdicts[i],
                  IF verdicts[i] = "pass"
                  THEN <<"Bound", " ", "to", " ", "a", " ", "variable">>
                  ELSE <<"Bind", " ", "\"", "fill", "\"", " ", "to", " ", "a", " ", "variable">>,
                  comps[i].pageName)]

\* (check as any).pageName as a condition
pageNameTruthy(check) == check.hasPageName /\ check.pageName # <<>>

statusIcon(status) ==
    CASE status = "pass" -> "check mark"
      [] status = "fail" -> "cross mark"
      [] status = "warning" -> "warning sign"
      [] OTHER -> "bullet"

ConsoleLine(kind, text, score) == [kind |-> kind, text |-> text, score |-> score]

\* The console.log calls of reportToConsole, one line each.
reportToConsole(r) ==
    <<ConsoleLine("rule", <<>>, <<>>),
      ConsoleLine("title", Chars(r.fileName), <<>>),
      ConsoleLine("timestamp", <<>>, <<>>),
      ConsoleLine("rule", <<>>, <<>>),
      ConsoleLine("overall", <<>>, <<r.scores.overall.score>>)>>
    \o (IF Len(r.collectionStructure) > 0
        THEN <<ConsoleLine("section", <<"Collection Structure">>, <<r.scores.collection.score>>)>>
             \o [i \in 1..Len(r.collectionStructure) |->
                   ConsoleLine("check",
                       <<" ", " ", statusIcon(r.collectionStructure[i].status), " ">>
                       \o r.collectionStructure[i].check, <<>>)]
        ELSE <<>>)
    \o (IF Len(r.textStyleSync) > 0
        THEN <<ConsoleLine("section", <<"Text Styles">>, <<r.scores.textStyle.score>>)>>
             \o [i \in 1..Len(r.textStyleSync) |->
                   ConsoleLine("check",
                       <<" ", " ", statusIcon(r.textStyleSync[i].status), " ">>
                       \o r.textStyleSync[i].check, <<>>)]
        ELSE <<>>)
    \o (IF Len(r.componentBindings) > 0
        THEN <<ConsoleLine("section", <<"Components">>, <<r.scores.component.score>>)>>
             \o [i \in 1..Len(r.componentBindings) |->
                   ConsoleLine("check",
                       <<" ", " ", statusIcon(r.componentBindings[i].status), " ">>
                       \o r.componentBindings[i].check
                       \o (IF pageNameTruthy(r.componentBindings[i])
                           THEN <<" ", "[">> \o r.componentBindings[i].pageName \o <<"]">>
                           ELSE <<>>),
                       <<>>)]
        ELSE <<>>)
    \o <<ConsoleLine("rule", <<>>, <<>>)>>

\* How JSON.stringify writes a string.
jsonString(text) ==
    <<"\"">>
    \o Flatten([i \in 1..Len(text) |->
                   CASE text[i] = "\"" -> <<"\\", "\"">>
                     [] text[i] = "\\" -> <<"\\", "\\">>
                     [] text[i] = "\n" -> <<"\\", "n">>
                     [] OTHER -> <<text[i]>>])
    \o <<"\"">>

\* How JSON.stringify writes an AuditCheck: its own properties, one member
\* each; a property that is undefined is not written.
jsonCheck(check) ==
    <<[key |-> "check", value |-> jsonString(check.check)],
      [key |-> "status", value |-> jsonString(<<check.status>>)],
      [key |-> "suggestion", value |-> jsonString(check.suggestion)]>>
    \o (IF check.hasPageName
        THEN <<[key |-> "pageName", value |-> jsonString(check.pageName)]>>
        ELSE <<>>)

\* JSON.stringify(results, null, 2) as reportToJsonFile writes it
reportToJsonFile(r) ==
    [fileKey |-> jsonString(<<r.fileKey>>),
     fileName |-> jsonString(Chars(r.fileName)),
     scores |-> r.scores,
     collectionStructure |-> [i \in 1..Len(r.collectionStructure) |-> jsonCheck(r.collectionStructure[i])],
     textStyleSync |-> [i \in 1..Len(r.textStyleSync) |-> jsonCheck(r.textStyleSync[i])],
     componentBindings |-> [i \in 1..Len(r.componentBindings) |-> jsonCheck(r.componentBindings[i])]]

\* text.replace(/c/g, replacement) for a pattern of one character
replaceAll(text, c, replacement) ==
    Flatten([i \in 1..Len(text) |-> IF text[i] = c THEN replacement ELSE <<text[i]>>])

\* The ampersand is replaced last, after the entities were written.
escapeHtmlAmpersandLast(text) ==
    replaceAll(
        replaceAll(
            replaceAll(
                replaceAll(
                    replaceAll(text, "<", <<"&", "lt;">>),
                    ">", <<"&", "gt;">>),
                "\"", <<"&", "quot;">>),
            "\n", <<"<", "br", ">">>),
        "&", <<"&", "amp;">>)

escapeHtml(text) ==
    replaceAll(
        replaceAll(
            replaceAll(
                replaceAll(
                    replaceAll(text, "&", <<"&", "amp;">>),
                    "<", <<"&", "lt;">>),
                ">", <<"&", "gt;">>),
            "\"", <<"&", "quot;">>),
        "\n", <<"<", "br", ">">>)

toUpperCase(status) ==
    CASE status = "pass" -> "PASS"
      [] status = "fail" -> "FAIL"
      [] status = "warning" -> "WARNING"
      [] OTHER -> status

htmlStatusBadge(status) == <<"<span badge>", toUpperCase(status), "</span>">>

\* The markup of one check in buildChecksHtml
checkHtml(c) ==
    <<"<div check>", "\n", " ", " ", "<div>">> \o htmlStatusBadge(c.status)
    \o <<" ", "<strong>">> \o escapeHtml(c.check) \o <<"</strong>">>
    \o (IF pageNameTruthy(c)
        THEN <<" ", "<span page>", "[">> \o escapeHtml(c.pageName) \o <<"]", "</span>">>
        ELSE <<>>)
    \o <<"</div>", "\n", " ", " ", "<div suggestion>">> \o escapeHtml(c.suggestion)
    \o <<"</div>", "\n", "</div>">>

RECURSIVE join(_, _)
join(texts, separator) ==
    IF texts = <<>> THEN <<>>
    ELSE IF Len(texts) = 1 THEN texts[1]
    ELSE texts[1] \o separator \o join(Tail(texts), separator)

buildChecksHtml(cs) ==
    IF Len(cs) = 0
    THEN <<"<p>", "No checks in this section.", "</p>">>
    ELSE join([i \in 1..Len(cs) |-> checkHtml(cs[i])], <<"\n">>)

\* The document reportToHtmlFile writes: its title and the three sections.
reportToHtmlFile(r) ==
    [title |-> escapeHtml(Chars(r.fileName)),
     scores |-> r.scores,
     collectionStructure |-> buildChecksHtml(r.collectionStructure),
     textStyleSync |-> buildChecksHtml(r.textStyleSync),
     componentBindings |-> buildChecksHtml(r.componentBindings)]

\* The AuditResults of the audit: the component checks after those of the
\* collection validator.
reportResults(collectionChecks, componentChecks) ==
    buildResults([fileKey |-> "abc123"], [name |-> "Design System"],
                 [collectionChecks |-> collectionChecks, textStyleChecks |-> <<>>,
                  componentChecks |-> componentChecks])

MaxPages == 2

PageNames ==
    {<<"Components">>,
     <<"Icons", " ", "&", " ", "Logos">>,
     <<"A", "<", "B", ">">>,
     <<"Say", "\n", "\"", "hi", "\"">>,
     <<"R", "&", "amp;", "D">>}

\* The top-level nodes of a page.
PageChildren ==
    {<<>>,
     <<ButtonSet>>,
     <<WithChildren(MixedFrame, <<IconSlot>>)>>,
     <<Label, WithChildren(ButtonSet, <<IconSlot>>), IconSlot>>}

Page(name, children) == [name |-> name, children |-> children]

PagesUniverse ==
    UNION {[1..n -> {Page(name, kids) : name \in PageNames, kids \in PageChildren}] :
              n \in 1..MaxPages}

\* What the collection validator returned: nothing, or a check that names
\* no page.
CollectionOutcomes ==
    {<<>>, <<PlainCheck(<<"Collections", " ", "<", "3", ">">>, "pass", <<"ok">>)>>}

InitReport ==
    /\ pages \in PagesUniverse
    /\ lintComponents = <<>>
    /\ auditResults = <<>>
    /\ emitted = <<>>
    /\ rpc = "pages"
    /\ AnalyzerIdle
    /\ StatsIdle
    /\ CliIdle
    /\ UrlIdle
    /\ PluginIdle

\* const components = findComponents(data.pages)
FindComponents ==
    /\ rpc = "pages"
    /\ lintComponents' = findComponents(pages)
    /\ rpc' = "found"
    /\ UNCHANGED <<pages, auditResults, emitted, analyzerVars, statsVars, cliVars, urlVars, pluginVars>>

\* The validators run: every component passes, or one of them fails.
ValidateAllComponentBindings ==
    /\ rpc = "found"
    /\ \E failing \in 0..Len(lintComponents), collection \in CollectionOutcomes :
          auditResults' =
              reportResults(collection,
                  validateAllComponentBindings(lintComponents,
                      [i \in 1..Len(lintComponents) |->
                          IF i = failing THEN "fail" ELSE "pass"]))
    /\ rpc' = "checked"
    /\ UNCHANGED <<pages, lintComponents, emitted, analyzerVars, statsVars, cliVars, urlVars, pluginVars>>

ReportToConsole ==
    /\ rpc = "checked"
    /\ emitted' = <<[format |-> "console", lines |-> reportToConsole(auditResults)]>>
    /\ rpc' = "reported"
    /\ UNCHANGED <<pages, lintComponents, auditResults, analyzerVars, statsVars, cliVars, urlVars, pluginVars>>

\* writeFileSync either writes the file or throws.
ReportToJsonFile ==
    /\ rpc = "checked"
    /\ \E writeOk \in BOOLEAN :
          IF writeOk
          THEN /\ emitted' = <<[format |-> "json", file |-> reportToJsonFile(auditResults)]>>
               /\ rpc' = "reported"
          ELSE /\ rpc' = "threw"
               /\ UNCHANGED emitted
    /\ UNCHANGED <<pages, lintComponents, auditResults, analyzerVars, statsVars, cliVars, urlVars, pluginVars>>

ReportToHtmlFile ==
    /\ rpc = "checked"
    /\ \E writeOk \in BOOLEAN :
          IF writeOk
          THEN /\ emitted' = <<[format |-> "html", file |-> reportToHtmlFile(auditResults)]>>
               /\ rpc' = "reported"
          ELSE /\ rpc' = "threw"
               /\ UNCHANGED emitted
    /\ UNCHANGED <<pages, lintComponents, auditResults, analyzerVars, statsVars, cliVars, urlVars, pluginVars>>

NextReport ==
    \/ FindComponents
    \/ ValidateAllComponentBindings
    \/ ReportToConsole
    \/ ReportToJsonFile
    \/ ReportToHtmlFile

SpecReport == InitReport /\ [][NextReport]_vars

(***************************************************************************)
(* The plugin's message handler: handleUIMessage and the three audits it   *)
(* dispatches to.  A step is a stretch of the handler between its awaits;  *)
(* the Figma document, the validators' verdicts and a validator that       *)
(* throws are chosen by the environment.  A field a posted object does not *)
(* have is <<>>, a field it has is <<its value>>.                          *)
(***************************************************************************)
Message(type, data) == [type |-> type, data |-> data]

ResultData(collection, textStyle, component, scores) ==
    [error |-> <<>>, collectionStructure |-> collection, textStyleSync |-> textStyle,
     componentBindings |-> component, scores |-> scores]

ErrorData(message) ==
    [error |-> <<message>>, collectionStructure |-> <<>>, textStyleSync |-> <<>>,
     componentBindings |-> <<>>, scores |-> <<>>]

\* Every audit posts its outcome as a system audit result.
resultTypeOfSystem(type) == "system-audit-result"

\* The type of the message in which the audit of a message type posts its
\* outcome.
resultTypeOf(type) ==
    CASE type = "analyze-system" -> "system-audit-result"
      [] type = "analyze-variables-styles" -> "variables-styles-audit-result"
      [] type = "analyze-components" -> "components-audit-result"

\* The audit-progress messages of validateAllComponentBindings for its
\* first n components.
auditProgress(comps, n) ==
    [i \in 1..n |-> Message("audit-progress", <<i, Len(comps)>>)]

\* The data of the result message of the audit, from what the validators
\* returned.
auditResultData(type, collection, textStyle, component) ==
    CASE type = "analyze-system" ->
           ResultData(<<collection>>, <<textStyle>>, <<component>>,
               <<[overall |-> <<pluginCalculateAuditStats(collection \o textStyle \o component)>>,
                  collection |-> <<pluginCalculateAuditStats(collection)>>,
                  textStyle |-> <<pluginCalculateAuditStats(textStyle)>>,
                  component |-> <<pluginCalculateComponentStats(component)>>]>>)
      [] type = "analyze-variables-styles" ->
           ResultData(<<collection>>, <<textStyle>>, <<>>,
               <<[overall |-> <<pluginCalculateAuditStats(collection \o textStyle)>>,
                  collection |-> <<pluginCalculateAuditStats(collection)>>,
                  textStyle |-> <<pluginCalculateAuditStats(textStyle)>>,
                  component |-> <<>>]>>)
      [] type = "analyze-components" ->
           ResultData(<<>>, <<>>, <<component>>,
               <<[overall |-> <<>>, collection |-> <<>>, textStyle |-> <<>>,
                  component |-> <<pluginCalculateComponentStats(component)>>]>>)

\* An audit from the data fetchPluginData returned to the end of its try
\* statement: the messages it posts.  collectionThrows: the collection
\* validator throws; throwAt: the index of the component at which the
\* component binding validator throws, 0 when it does not.
runAudit(type, pgs, v, failing, collectionThrows, throwAt) ==
    LET comps == IF type = "analyze-variables-styles" THEN <<>> ELSE findComponents(pgs)
        reached == IF throwAt \in 1..Len(comps) THEN throwAt - 1 ELSE Len(comps)
        component ==
            validateAllComponentBindings(comps,
                [i \in 1..Len(comps) |-> IF i = failing THEN "fail" ELSE "pass"])
    IN  IF type # "analyze-components" /\ collectionThrows
        THEN <<Message(resultTypeOf(type), ErrorData("validator error"))>>
        ELSE auditProgress(comps, reached)
             \o <<Message(resultTypeOf(type),
                     IF throwAt \in 1..Len(comps)
                     THEN ErrorData("validator error")
                     ELSE auditResultData(type, v.collection, v.sync \o v.bindings, component))>>

UIMessages ==
    {[type |-> t] : t \in {"analyze-system", "analyze-variables-styles", "analyze-components",
                            "analyze-enhanced"}}

\* figma.root.children as fetchPluginData adapts it
PluginPages ==
    {<<>>,
     <<Page(<<"Components">>, <<ButtonSet>>)>>,
     <<Page(<<"Components">>, <<Label, WithChildren(ButtonSet, <<IconSlot>>)>>),
       Page(<<"Icons">>, <<IconSlot>>)>>}

InitPlugin ==
    /\ uiMessage \in {<<m>> : m \in UIMessages}
    /\ posted = <<>>
    /\ hpc = "called"
    /\ promise = "pending"
    /\ AnalyzerIdle
    /\ StatsIdle
    /\ CliIdle
    /\ UrlIdle
    /\ ReportIdle

\* handleUIMessage up to the first await of the audit it dispatches to
HandleUIMessage ==
    /\ hpc = "called"
    /\ IF uiMessage[1].type \in {"analyze-system", "analyze-variables-styles", "analyze-components"}
       THEN hpc' = "fetchPluginData" /\ UNCHANGED promise
       ELSE hpc' = "settled" /\ promise' = "fulfilled"
    /\ UNCHANGED <<uiMessage, posted, analyzerVars, statsVars, cliVars, urlVars, reportVars>>

\* await fetchPluginData() resolves: the rest of the audit and of
\* handleUIMessage
FetchPluginDataResolved ==
    /\ hpc = "fetchPluginData"
    /\ \E pgs \in PluginPages, v \in ValidatorVerdicts, failing \in 0..1,
          collectionThrows \in BOOLEAN, throwAt \in 0..2 :
          posted' = posted \o runAudit(uiMessage[1].type, pgs, v, failing,
                                       collectionThrows, throwAt)
    /\ hpc' = "settled"
    /\ promise' = "fulfilled"
    /\ UNCHANGED <<uiMessage, analyzerVars, statsVars, cliVars, urlVars, reportVars>>

\* await fetchPluginData() rejects: the catch clause of the audit
FetchPluginDataRejected ==
    /\ hpc = "fetchPluginData"
    /\ posted' = Append(posted, Message(resultTypeOf(uiMessage[1].type), ErrorData("fetch error")))
    /\ hpc' = "settled"
    /\ promise' = "fulfilled"
    /\ UNCHANGED <<uiMessage, analyzerVars, statsVars, cliVars, urlVars, reportVars>>

NextPlugin ==
    \/ HandleUIMessage
    \/ FetchPluginDataResolved
    \/ FetchPluginDataRejected

SpecPlugin == InitPlugin /\ [][NextPlugin]_vars

(***************************************************************************)
(* An audit, by either of its two callers: a run of the CLI or a message   *)
(* handled by the plugin.                                                  *)
(***************************************************************************)
InitAudit ==
    \/ InitCli
    \/ InitPlugin

NextAudit ==
    \/ NextCli
    \/ NextPlugin

SpecAudit == InitAudit /\ [][NextAudit]_vars

(***************************************************************************)
(* The component tree as a set of positions: a position is the sequence of *)
(* child indices leading from the root to a node.                          *)
(***************************************************************************)
KidsOf(node) == IF node.hasChildren THEN node.children ELSE <<>>

RECURSIVE Paths(_)
Paths(node) ==
    {<<>>} \cup UNION {{<<i>> \o p : p \in Paths(KidsOf(node)[i])} : i \in 1..Len(KidsOf(node))}

RECURSIVE NodeAt(_, _)
NodeAt(node, path) ==
    IF path = <<>> THEN node ELSE NodeAt(node.children[Head(path)], Tail(path))

MaxOf(S) == CHOOSE x \in S : \A y \in S : y <= x

\* The componentPropertyDefinitions entries of a node (none when absent).
EntriesOf(node) ==
    IF node.hasComponentPropertyDefinitions THEN node.componentPropertyDefinitions ELSE <<>>

\* <<p, i>>: the i-th entry of the node at position p.
EntrySlots(root) ==
    UNION {{<<p, i>> : i \in 1..Len(EntriesOf(NodeAt(root, p)))} : p \in Paths(root)}

EntryAt(root, slot) == EntriesOf(NodeAt(root, slot[1]))[slot[2]]

SlotsOfType(root, type) == {s \in EntrySlots(root) : EntryAt(root, s).type = type}

\* The paths a VARIANT entry adds: its declared options, and 1 when
\* variantOptions is absent; emptyAsOne makes an empty variantOptions add 1 too.
OptionsOrOne(def, emptyAsOne) ==
    IF ~def.hasVariantOptions THEN 1
    ELSE IF emptyAsOne /\ def.variantOptions = 0 THEN 1
    ELSE def.variantOptions

\* One element per configuration path the VARIANT entries add.
VariantPaths(root, emptyAsOne) ==
    UNION {{<<s, k>> : k \in 1..OptionsOrOne(EntryAt(root, s), emptyAsOne)} :
              s \in SlotsOfType(root, "VARIANT")}

TheRoot == components[1].node
TheResult == results[1]

(***************************************************************************)
(* C1.  The list analyzeAllComponents returns is sorted non-increasing by  *)
(* composite: r[i].composite >= r[i+1].composite for all adjacent results. *)
(***************************************************************************)
C1_SortedByComposite ==
    apc = "batch" =>
        \A i \in 1..(Len(results) - 1) : results[i].composite >= results[i + 1].composite

\* A batch of three whose most complex component came last in the input.
C1_Witness ==
    /\ apc = "batch"
    /\ Len(results) = 3
    /\ results[1].composite > results[2].composite
    /\ results[2].composite > results[3].composite
    /\ results[1].nodeId = components[3].node.id
    /\ results[1].nodeId # components[1].node.id

(***************************************************************************)
(* C2.  The composite returned by analyzeComponentComplexity is an integer *)
(* in [0,100], for every component tree.                                   *)
(***************************************************************************)
C2_CompositeInRange ==
    apc = "single" => TheResult.composite \in 0..100

\* A component whose cyclomatic axis alone exceeds the scale.
C2_Witness ==
    /\ apc = "single"
    /\ TheResult.cyclomatic.score > 400
    /\ TheResult.structural.nodeCount = MaxNodes
    /\ TheResult.composite \in 0..100

(***************************************************************************)
(* C3 (as amended).  The cyclomatic score is 1 plus, over every            *)
(* componentPropertyDefinitions entry of every node of the subtree: the    *)
(* length of variantOptions for a VARIANT property (possibly 0; 1 when the *)
(* property has no variantOptions field), and 1 for each BOOLEAN,          *)
(* INSTANCE_SWAP and TEXT property; and score = 1 + variants +             *)
(* booleanProps + instanceSwaps + textProps.                               *)
(***************************************************************************)
CyclomaticAsClaimed(emptyAsOne) ==
    LET c == TheResult.cyclomatic
    IN  /\ c.breakdown.variants = Cardinality(VariantPaths(TheRoot, emptyAsOne))
        /\ c.breakdown.booleanProps = Cardinality(SlotsOfType(TheRoot, "BOOLEAN"))
        /\ c.breakdown.instanceSwaps = Cardinality(SlotsOfType(TheRoot, "INSTANCE_SWAP"))
        /\ c.breakdown.textProps = Cardinality(SlotsOfType(TheRoot, "TEXT"))
        /\ c.score = 1 + c.breakdown.variants + c.breakdown.booleanProps
                       + c.breakdown.instanceSwaps + c.breakdown.textProps

C4_StaticComponent ==
    (apc = "single" /\ EntrySlots(TheRoot) = {}) =>
        /\ TheResult.cyclomatic.score = 1
        /\ TheResult.cyclomatic.breakdown = cyclomaticStart

\* Three nodes, none with an entry, one of them with an empty definitions map.
C4_Witness ==
    /\ apc = "single"
    /\ EntrySlots(TheRoot) = {}
    /\ TheResult.structural.nodeCount = 3
    /\ \E p \in Paths(TheRoot) : NodeAt(TheRoot, p).hasComponentPropertyDefinitions
    /\ TheResult.cyclomatic.score = 1

(***************************************************************************)
(* C5.  structural.nodeCount is 1 plus the sum of the nodeCount of each    *)
(* direct child's subtree; every node of the subtree is counted exactly    *)
(* once, and a node without a children field counts as having no children. *)
(***************************************************************************)
C5_NodeCountIdentity ==
    apc = "single" =>
        /\ TheResult.structural.nodeCount =
              1 + SumSeq([i \in 1..Len(KidsOf(TheRoot)) |->
                             computeStructuralMetrics(KidsOf(TheRoot)[i]).nodeCount])
        /\ TheResult.structural.nodeCount = Cardinality(Paths(TheRoot))

\* A root with two children, the first of them lacking the children field.
C5_Witness ==
    /\ apc = "single"
    /\ Len(KidsOf(TheRoot)) = 2
    /\ ~TheRoot.children[1].hasChildren
    /\ TheResult.structural.nodeCount = 3

(***************************************************************************)
(* C6.  maxDepth is the greatest number of edges from the root to a node,  *)
(* maxFanOut the greatest number of direct children of a node, leafCount   *)
(* the number of nodes with zero or absent children; hence                 *)
(* 1 <= leafCount <= nodeCount and maxDepth <= nodeCount - 1.              *)
(***************************************************************************)
C6_DepthFanOutLeaves ==
    apc = "single" =>
        LET m == TheResult.structural
            ps == Paths(TheRoot)
        IN  /\ m.maxDepth = MaxOf({Len(p) : p \in ps})
            /\ m.maxFanOut = MaxOf({Len(KidsOf(NodeAt(TheRoot, p))) : p \in ps})
            /\ m.leafCount = Cardinality({p \in ps : Len(KidsOf(NodeAt(TheRoot, p))) = 0})
            /\ 1 <= m.leafCount
            /\ m.leafCount <= m.nodeCount
            /\ m.maxDepth <= m.nodeCount - 1

\* A chain of three nodes ending in a node with an empty children array.
C6_Witness ==
    /\ apc = "single"
    /\ TheResult.structural.maxDepth = 2
    /\ TheResult.structural.leafCount = 1
    /\ TheResult.structural.maxFanOut = 1
    /\ NodeAt(TheRoot, <<1, 1>>).hasChildren

(***************************************************************************)
(* C7.  Each of the four score helpers returns                             *)
(* score = round(100 * passed / total), passed the number of checks with   *)
(* status pass and total the list length; score = 100 for the empty list;  *)
(* the score is an integer in [0,100].                                     *)
(***************************************************************************)
PassedIn(cs) == Cardinality({i \in 1..Len(cs) : cs[i].status = "pass"})
FailedIn(cs) == Cardinality({i \in 1..Len(cs) : cs[i].status = "fail"})

C7_ScoreIsRoundedPercentage ==
    helper # "none" =>
        /\ stats[1].score =
              IF Len(checks) = 0 THEN 100 ELSE RoundDiv(100 * PassedIn(checks), Len(checks))
        /\ stats[1].score \in 0..100

(***************************************************************************)
(* C8 (as amended).  The stats calculateAuditStats returns have            *)
(* warnings = 0 and passed + failed = total minus the number of checks     *)
(* whose status is neither pass nor fail; so passed + failed = total for   *)
(* every list whose checks all pass or fail.                               *)
(***************************************************************************)
AuditStatsHelpers == {"calculateAuditStats", "plugin.calculateAuditStats"}

AuditChecks == audit[1].collectionStructure \o audit[1].textStyleSync \o audit[1].componentBindings

SomeCheckFailed == \E i \in 1..Len(AuditChecks) : AuditChecks[i].status = "fail"

StandardAuditDone ==
    /\ cpc = "exited"
    /\ audit # <<>>
    /\ args[1].auditType \in {"system", "variables-styles", "components"}

OutputStepDied ==
    \/ args[1].format = "html" /\ ~hasOutput(args[1])
    \/ "Fatal error" \in Range(stdio)

BatchOver == apc \in {"batch", "threw"}

\* The callback throws at one of the invocations the loop makes.
CallbackThrows == onProgress.kind = "throws" /\ onProgress.at \in 1..Len(components)

\* The components whose analysis raises / does not raise.
Raising == {i \in 1..Len(components) : analyzeComponentComplexityRaises(components[i])}
Sound == (1..Len(components)) \ Raising

(***************************************************************************)
(* C11.  analyzeAllComponents called with an onProgress that throws on     *)
(* some invocation still returns, with one result for every component      *)
(* (the components themselves being well-formed).                          *)
(***************************************************************************)
C11_ThrowingCallbackDoesNotAbort ==
    (BatchOver /\ CallbackThrows /\ Raising = {}) =>
        /\ apc = "batch"
        /\ Len(results) = Len(components)

(***************************************************************************)
(* C12.  When the analysis of one component raises inside                  *)
(* analyzeAllComponents, the batch still returns the result of every       *)
(* other component (the callback, if any, not throwing).                   *)
(***************************************************************************)
C12_RaiseAbortsOneComponent ==
    (BatchOver /\ ~CallbackThrows /\ Raising # {}) =>
        /\ apc = "batch"
        /\ \A i \in Sound :
              \E j \in 1..Len(results) : results[j] = analyzeComponentComplexity(components[i])

(***************************************************************************)
(* C13.  Each of the three axis scores of computeCompositeScore lies in    *)
(* [0,100] (here in thousandths) for the metrics the analyzer produces of  *)
(* any component; a Halstead volume strictly between 0 and 1 (1 to 9       *)
(* tenths) is never produced.                                              *)
(***************************************************************************)
C13_AxisScoresInRange ==
    apc = "single" =>
        /\ structuralScore(TheResult.structural) \in 0..100000
        /\ cyclomaticScore(TheResult.cyclomatic) \in 0..100000
        /\ halsteadScore(TheResult.halstead) \in 0..100000
        /\ TheResult.halstead.volume \notin 1..9

\* The cyclomatic axis is cut at 100 while the Halstead axis is above 0.
C13_Witness ==
    /\ apc = "single"
    /\ TheResult.cyclomatic.score > 400
    /\ cyclomaticScore(TheResult.cyclomatic) = 100000
    /\ TheResult.halstead.volume > 0
    /\ halsteadScore(TheResult.halstead) \in 1..99999

(***************************************************************************)
(* The operator and operand tokens of a tree, one element <<p, i>> per     *)
(* token: the i-th token pushed for the node at position p.                *)
(***************************************************************************)
OperatorSlots(root) ==
    UNION {{<<p, i>> : i \in 1..Len(nodeOperators(NodeAt(root, p)))} : p \in Paths(root)}
OperandSlots(root) ==
    UNION {{<<p, i>> : i \in 1..Len(nodeOperands(NodeAt(root, p)))} : p \in Paths(root)}
OperatorAt(root, slot) == nodeOperators(NodeAt(root, slot[1]))[slot[2]]
OperandAt(root, slot) == nodeOperands(NodeAt(root, slot[1]))[slot[2]]

(***************************************************************************)
(* C14.  vocabulary = n1 + n2 and length = N1 + N2, with n the number of   *)
(* distinct and N the number of all tokens of the operator and operand     *)
(* bags; volume = 0 when vocabulary <= 1 or length = 0; difficulty = 0     *)
(* when n2 = 0; effort = 0 when volume or difficulty is 0.                 *)
(***************************************************************************)
C14_HalsteadFormulas ==
    apc = "single" =>
        LET h == TheResult.halstead
            n1 == Cardinality({OperatorAt(TheRoot, s) : s \in OperatorSlots(TheRoot)})
            n2 == Cardinality({OperandAt(TheRoot, s) : s \in OperandSlots(TheRoot)})
            N1 == Cardinality(OperatorSlots(TheRoot))
            N2 == Cardinality(OperandSlots(TheRoot))
        IN  /\ h.operators = [unique |-> n1, total |-> N1]
            /\ h.operands = [unique |-> n2, total |-> N2]
            /\ h.vocabulary = n1 + n2
            /\ h.length = N1 + N2
            /\ (h.vocabulary <= 1 \/ h.length = 0) => h.volume = 0
            /\ n2 = 0 => h.difficulty = 0
            /\ (h.volume = 0 \/ h.difficulty = 0) => h.effort = 0

\* Several nodes that push one and the same operator and no operand.
C14_Witness ==
    /\ apc = "single"
    /\ TheResult.halstead.vocabulary = 1
    /\ TheResult.halstead.length = MaxNodes
    /\ TheResult.halstead.volume = 0
    /\ TheResult.halstead.effort = 0

(***************************************************************************)
(* C15.  Partial or mixed node data never aborts the Halstead walk and is  *)
(* left out of the operand bag: the bag holds a radius (fontSize) token    *)
(* only for a node whose cornerRadius (fontSize) is a number, an opacity   *)
(* token only for a numeric opacity other than 1, a strokeWeight token     *)
(* only for a positive strokeWeight, a color (strokeColor) token only for  *)
(* a visible SOLID fill (stroke); every node, whatever it lacks, pushes    *)
(* its type operator, its children included.                               *)
(***************************************************************************)
IsNumber(field) == field.kind = "number"

VisibleSolid(node, has, paints) ==
    IF has THEN Cardinality({i \in 1..Len(paints) : paints[i].visible /\ paints[i].type = "SOLID"})
    ELSE 0

\* The operand tokens of a tag the claim lets a node contribute.
ClaimedOperands(tag, node) ==
    CASE tag = "radius" -> IF IsNumber(node.cornerRadius) THEN 1 ELSE 0
      [] tag = "fontSize" -> IF IsNumber(node.fontSize) THEN 1 ELSE 0
      [] tag = "opacity" -> IF IsNumber(node.opacity) /\ node.opacity.value # 1000 THEN 1 ELSE 0
      [] tag = "strokeWeight" ->
            IF IsNumber(node.strokeWeight) /\ node.strokeWeight.value > 0 THEN 1 ELSE 0
      [] tag = "color" -> VisibleSolid(node, node.hasFills, node.fills)
      [] tag = "strokeColor" -> VisibleSolid(node, node.hasStrokes, node.strokes)

ClaimedTags == {"radius", "fontSize", "opacity", "strokeWeight", "color", "strokeColor"}

TagCount(bag, tag) == Cardinality({i \in 1..Len(bag) : bag[i][1] = tag})

\* One element per operand token of a tag the claim lets the tree contribute.
ClaimedSlots(root, tag) ==
    UNION {{<<p, k>> : k \in 1..ClaimedOperands(tag, NodeAt(root, p))} : p \in Paths(root)}

WellShaped(root) == \A p \in Paths(root) : NodeAt(root, p).fillsIterable

C15_PartialDataExcluded ==
    (apc # "input" /\ WellShaped(TheRoot)) =>
        /\ apc = "single"
        /\ LET bags == halsteadWalk(TheRoot, halsteadStart)
           IN  /\ \A tag \in ClaimedTags :
                     TagCount(bags.operandBag, tag) = Cardinality(ClaimedSlots(TheRoot, tag))
               /\ TagCount(bags.operatorBag, "type") = Cardinality(Paths(TheRoot))
               /\ TheResult.halstead.operands.total = Len(bags.operandBag)

\* A frame with MIXED radius and font size and a non-positive stroke weight,
\* above a text of opacity 1 with a hidden fill.
C15_Witness ==
    /\ apc = "single"
    /\ TheRoot.cornerRadius = Mixed /\ TheRoot.fontSize = Mixed
    /\ TheRoot.strokeWeight = Num(0)
    /\ TheRoot.hasChildren /\ Len(TheRoot.children) = 1
    /\ TheRoot.children[1].opacity = Num(1000)
    /\ \E i \in 1..Len(TheRoot.children[1].fills) : ~TheRoot.children[1].fills[i].visible
    /\ TheResult.halstead.operators.total = 2

(***************************************************************************)
(* C17.  analyzeAllComponents returns exactly one result per input         *)
(* component, and the results are, up to their order, what                 *)
(* analyzeComponentComplexity returns for each component alone, whatever   *)
(* the other components of the list and their order.                       *)
(***************************************************************************)
C17_IndependentAnalyses ==
    apc = "batch" =>
        /\ Len(results) = Len(components)
        /\ \E perm \in Permutations(1..Len(components)) :
              \A i \in 1..Len(components) :
                  results[i] = analyzeComponentComplexity(components[perm[i]])

\* A batch that holds one component twice and that the sort reordered.
C17_Witness ==
    /\ apc = "batch"
    /\ Len(results) = 3
    /\ components[1] = components[2]
    /\ results[1] = analyzeComponentComplexity(components[3])
    /\ results[2] = results[3]
    /\ results[1] # results[2]

ShapesOf(text) == {t[2] : t \in {x \in UrlTexts : x[1] = text}}

IsUrl(u) == u.scheme # <<>>
OnFigma(u) == u.host \in {<<"www", ".", "figma", ".", "com">>, <<"figma", ".", "com">>}
Segments(u) == SelectSeq(u.segs, LAMBDA g : g # <<>>)

\* The positions of a 'design' or 'file' segment that another segment follows.
FollowedPrefixes(u) ==
    {k \in 1..(Len(Segments(u)) - 1) : Segments(u)[k] \in {<<"design">>, <<"file">>}}

\* The values of the node-id parameters, in order.
NodeIdValues(u, asWritten) ==
    IF asWritten /\ u.eq # <<"=">> THEN <<>>
    ELSE SelectSeq(u.params, LAMBDA q : q.name = <<"node", "-", "id">>)

\* r is v with every hyphen replaced by a colon.
Colonised(r, v) ==
    /\ Len(r) = Len(v)
    /\ \A i \in 1..Len(v) : r[i] = IF v[i] = "-" THEN ":" ELSE v[i]

NodeIdAsClaimed(r, u, asWritten) ==
    LET vals == NodeIdValues(u, asWritten)
    IN  IF vals = <<>> \/ vals[1].value = <<>>
        THEN r.nodeId = <<>>
        ELSE r.nodeId # <<>> /\ Colonised(r.nodeId[1], vals[1].value)

ParsedUrl == urlParts # <<>>

(***************************************************************************)
(* C19 (as amended).  For a URL on figma.com whose path has a 'design' or  *)
(* 'file' segment followed by a further segment, parseFigmaUrl returns the *)
(* segment after the first such segment as fileKey, and nodeId is the      *)
(* first node-id query value with every hyphen replaced by a colon,        *)
(* undefined when the parameter is absent or empty; the query is that of   *)
(* the URL as written for cli/url-parser.ts, and that of the URL without   *)
(* the backslashes in front of ? = & for the variant that strips them.  A  *)
(* string that is no URL, or a path with no segment after 'design' /       *)
(* 'file', raises an error.                                                *)
(***************************************************************************)
C19_ParseFigmaUrl ==
    ParsedUrl =>
        \A u \in ShapesOf(url) :
            LET r == urlParts[1]
                first == CHOOSE k \in FollowedPrefixes(u) : \A j \in FollowedPrefixes(u) : k <= j
            IN  /\ ~IsUrl(u) => r.threw
                /\ (IsUrl(u) /\ OnFigma(u) /\ FollowedPrefixes(u) = {}) => r.threw
                /\ (IsUrl(u) /\ OnFigma(u) /\ FollowedPrefixes(u) # {}) =>
                      /\ ~r.threw
                      /\ r.fileKey = Segments(u)[first + 1]
                      /\ NodeIdAsClaimed(r, u, urlParser = "url-parser")

\* The variant that strips the escapes read a node id with two hyphens out
\* of a URL written with \= for =.
C19_Witness ==
    /\ urlParser = "unescaping"
    /\ ParsedUrl
    /\ \E i \in 1..(Len(url) - 1) : url[i] = "\\" /\ url[i + 1] = "="
    /\ ~urlParts[1].threw
    /\ urlParts[1].fileKey = <<"abc123DEF">>
    /\ urlParts[1].nodeId = << <<"12", ":", "34", ":", "5">> >>

(***************************************************************************)
(* C19 as stated: the same, with nodeId read from the node-id query value  *)
(* of the URL as written, whichever the parser.                            *)
(***************************************************************************)
C19_Original ==
    ParsedUrl =>
        \A u \in ShapesOf(url) :
            LET r == urlParts[1]
            IN  /\ ~IsUrl(u) => r.threw
                /\ (IsUrl(u) /\ OnFigma(u) /\ FollowedPrefixes(u) = {}) => r.threw
                /\ (IsUrl(u) /\ OnFigma(u) /\ FollowedPrefixes(u) # {}) =>
                      /\ ~r.threw
                      /\ \E k \in FollowedPrefixes(u) : r.fileKey = Segments(u)[k + 1]
                      /\ NodeIdAsClaimed(r, u, TRUE)

(***************************************************************************)
(* The command line as its user reads it: the value --format was given     *)
(* with, and the path --output / -o was given with (<<>> when not given    *)
(* or given without a value).                                              *)
(***************************************************************************)
GivenWith(av, flags) ==
    LET at == {i \in 1..(Len(av) - 1) : av[i] \in flags}
    IN  IF at = {} THEN <<>> ELSE <<av[(CHOOSE i \in at : \A j \in at : i >= j) + 1]>>

FormatFlagGiven(av) == \E i \in 1..Len(av) : av[i] = "--format"

\* The format the extension of the output path stands for.
FormatOfExtension(path) ==
    CASE path \in {"report.json"} -> "json"
      [] path \in {"report.html", "report.htm"} -> "html"
      [] OTHER -> "console"

(***************************************************************************)
(* C20.  The output format is inferred from the extension of the --output  *)
(* path (.json gives json, .html or .htm gives html) only when --format    *)
(* was not given; a format given with --format is the format parseArgs     *)
(* returns, whatever the output path.                                      *)
(***************************************************************************)
C20_ExplicitFormatWins ==
    cpc = "parsed" =>
        LET format == GivenWith(argv, {"--format"})
            output == GivenWith(argv, {"--output", "-o"})
        IN  /\ format # <<>> => args[1].format = format[1]
            /\ ~FormatFlagGiven(argv) =>
                  args[1].format = IF output = <<>> THEN "console"
                                   ELSE FormatOfExtension(output[1])

(***************************************************************************)
(* C16: pageName is propagated unchanged.  Once findComponents returned,   *)
(* the components it returned are, counted with repetition, the COMPONENT  *)
(* and COMPONENT_SET nodes of the page trees, each with the name of the    *)
(* page whose tree holds it.  Once a report was written, every check of    *)
(* the results that carries a pageName has that value in the report: read  *)
(* back from the pageName member of its JSON object, after " [" at the end *)
(* of its console line, and, read as HTML, between the brackets after its  *)
(* label in the HTML document.                                             *)
(***************************************************************************)
\* <<p, c, path>>: the node at path in the c-th tree of the p-th page.
PagePositions ==
    UNION {UNION {{<<p, c, path>> : path \in Paths(pages[p].children[c])} :
                     c \in 1..Len(pages[p].children)} :
              p \in 1..Len(pages)}

PageNodeAt(q) == NodeAt(pages[q[1]].children[q[2]], q[3])

ComponentPositions ==
    {q \in PagePositions : PageNodeAt(q).type \in {"COMPONENT", "COMPONENT_SET"}}

\* The component a position holds, with the page that contains it.
Contained(q) == [node |-> PageNodeAt(q), pageName |-> pages[q[1]].name]

FoundOnTheirPages ==
    \A v \in {lintComponents[i] : i \in 1..Len(lintComponents)}
             \cup {Contained(q) : q \in ComponentPositions} :
        Cardinality({i \in 1..Len(lintComponents) : lintComponents[i] = v})
            = Cardinality({q \in ComponentPositions : Contained(q) = v})

\* The string a JSON string literal denotes.
RECURSIVE JsonUnescape(_)
JsonUnescape(text) ==
    IF text = <<>> THEN <<>>
    ELSE IF text[1] = "\\" /\ Len(text) >= 2
         THEN <<CASE text[2] = "n" -> "\n"
                  [] OTHER -> text[2]>> \o JsonUnescape(SubSeq(text, 3, Len(text)))
         ELSE <<text[1]>> \o JsonUnescape(Tail(text))

JsonParseString(literal) == JsonUnescape(SubSeq(literal, 2, Len(literal) - 1))

\* The text a browser shows for a piece of markup.
RECURSIVE HtmlText(_)
HtmlText(html) ==
    IF html = <<>> THEN <<>>
    ELSE IF Len(html) >= 2 /\ html[1] = "&" /\ html[2] \in {"amp;", "lt;", "gt;", "quot;"}
         THEN <<CASE html[2] = "amp;" -> "&"
                  [] html[2] = "lt;" -> "<"
                  [] html[2] = "gt;" -> ">"
                  [] html[2] = "quot;" -> "\"">> \o HtmlText(SubSeq(html, 3, Len(html)))
    ELSE IF Len(html) >= 3 /\ SubSeq(html, 1, 3) = <<"<", "br", ">">>
         THEN <<"\n">> \o HtmlText(SubSeq(html, 4, Len(html)))
    ELSE <<html[1]>> \o HtmlText(Tail(html))

\* The positions of a symbol in a text, in order.
Occurrences(text, symbol) ==
    SelectSeq([k \in 1..Len(text) |-> IF text[k] = symbol THEN k ELSE 0], LAMBDA k : k > 0)

\* <<the page name shown after the label of the i-th check>>, else <<>>.
HtmlPageName(html, i) ==
    LET k == Occurrences(html, "</strong>")[i]
    IN  IF k + 3 <= Len(html) /\ SubSeq(html, k + 1, k + 3) = <<" ", "<span page>", "[">>
        THEN LET e == indexOf(html, {"</span>"}, k + 3)
             IN  IF html[e - 1] = "]" THEN <<HtmlText(SubSeq(html, k + 4, e - 2))>> ELSE <<>>
        ELSE <<>>

ReportSections == {"collectionStructure", "textStyleSync", "componentBindings"}

SectionTitle(s) ==
    CASE s = "collectionStructure" -> "Collection Structure"
      [] s = "textStyleSync" -> "Text Styles"
      [] s = "componentBindings" -> "Components"

\* The console line of the i-th check of a section.
ConsoleLineOf(lines, s, i) ==
    lines[(CHOOSE k \in 1..Len(lines) :
              lines[k].kind = "section" /\ lines[k].text = <<SectionTitle(s)>>) + i]

\* The value of the pageName member of a JSON object, <<>> without one.
JsonPageName(object) ==
    LET at == {m \in 1..Len(object) : object[m].key = "pageName"}
    IN  IF Cardinality(at) = 1
        THEN <<JsonParseString(object[CHOOSE m \in at : TRUE].value)>>
        ELSE <<>>

\* The i-th check of section s names its page in what was written.
PageNameEmitted(s, i) ==
    LET check == auditResults[s][i]
        out == emitted[1]
    IN  CASE out.format = "json" -> JsonPageName(out.file[s][i]) = <<check.pageName>>
          [] out.format = "html" -> HtmlPageName(out.file[s], i) = <<check.pageName>>
          [] out.format = "console" ->
                endsWith(ConsoleLineOf(out.lines, s, i).text,
                         <<" ", "[">> \o check.pageName \o <<"]">>)

C16_PageNamePropagated ==
    /\ rpc \in {"found", "checked", "reported", "threw"} => FoundOnTheirPages
    /\ rpc = "reported" =>
          \A s \in ReportSections : \A i \in 1..Len(auditResults[s]) :
              auditResults[s][i].hasPageName => PageNameEmitted(s, i)

\* An HTML report was written for a component on the second page, whose name
\* needs escaping and differs from that of the first page.
C16_Witness ==
    /\ rpc = "reported"
    /\ emitted[1].format = "html"
    /\ Len(pages) = 2
    /\ pages[1].name = <<"Components">>
    /\ pages[2].name = <<"R", "&", "amp;", "D">>
    /\ \E i \in 1..Len(auditResults.componentBindings) :
          /\ auditResults.componentBindings[i].pageName = pages[2].name
          /\ auditResults.componentBindings[i].status = "fail"

(***************************************************************************)
(* C21.  When --help or -h is among the arguments, the CLI issues no Figma *)
(* API request, and when it has exited it has printed the help text and    *)
(* nothing else and its exit code is 0, whatever the other arguments and   *)
(* the environment are.                                                    *)
(***************************************************************************)
HelpAmong(av) == \E i \in 1..Len(av) : av[i] \in {"--help", "-h"}

C21_HelpWins ==
    HelpAmong(argv) =>
        /\ requests = <<>>
        /\ cpc = "exited" => exitCode = <<0>> /\ stdio = <<"help">>

(***************************************************************************)
(* C22.  When the resolved format is html and no --output path was given,  *)
(* the CLI writes no report and never exits with code 2; once the run has  *)
(* come to its output step (the standard audit built its results, or the   *)
(* complexity audit analysed the node or the components it found), the     *)
(* last thing it does is to print that html needs an output path and to    *)
(* exit with code 1, whether or not a check failed.                        *)
(***************************************************************************)
HtmlWithoutOutput == args # <<>> /\ args[1].format = "html" /\ ~hasOutput(args[1])

Printed(message) == \E i \in 1..Len(stdio) : stdio[i] = message

\* main() or runComplexityAudit() came to its output switch.
OutputStepReached ==
    /\ cpc = "exited"
    /\ \/ audit # <<>>
       \/ Printed("Analysing components")
       \/ Printed("Fetching node") /\ ~Printed("Node not found") /\ ~Printed("Fatal error")

C23_NoRequestWithoutKeyAndToken ==
    /\ requests # <<>> => args # <<>> /\ args[1].fileKey # "" /\ args[1].token # ""
    /\ (cpc = "exited" /\ args # <<>> /\ ~args[1].help) =>
          /\ args[1].fileKey = "" =>
                /\ exitCode = <<1>>
                /\ requests = <<>>
                /\ stdio = <<"Error: Figma file key is required">>
          /\ (args[1].fileKey # "" /\ args[1].token = "") =>
                /\ exitCode = <<1>>
                /\ requests = <<>>
                /\ stdio = <<"Error: Figma token is required">>

\* Neither a file key nor a token: the file key is the one reported.
C23_Witness ==
    /\ cpc = "exited"
    /\ args # <<>> /\ ~args[1].help
    /\ args[1].fileKey = "" /\ args[1].token = ""
    /\ stdio = <<"Error: Figma file key is required">>

\* The claim as stated: an empty file key or token always ends in exit code 1.
C23_Original ==
    /\ requests # <<>> => args # <<>> /\ args[1].fileKey # "" /\ args[1].token # ""
    /\ (cpc = "exited" /\ args # <<>> /\ (args[1].fileKey = "" \/ args[1].token = "")) =>
          /\ exitCode = <<1>>
          /\ requests = <<>>

(***************************************************************************)
(* C24.  When the request for the local variables fails, the CLI warns     *)
(* that the variables could not be fetched and goes on: it builds the      *)
(* audit results, emits the report unless the output step itself ends the  *)
(* run, and exits with the code the checks and the output step give (1     *)
(* when the output step failed, else 2 when a check failed, else 0).       *)
(***************************************************************************)
VariablesFetchFailed ==
    /\ cpc = "exited"
    /\ \E i \in 1..Len(requests) : requests[i].method = "getLocalVariables"
    /\ ~Printed("Found collections and variables")

ResultTypeFor(type) ==
    CASE type = "analyze-system" -> "system-audit-result"
      [] type = "analyze-variables-styles" -> "variables-styles-audit-result"
      [] type = "analyze-components" -> "components-audit-result"
      [] OTHER -> "none"

CarriesError(data) == data.error # <<>>

CarriesResults(data) ==
    /\ data.scores # <<>>
    /\ \/ data.collectionStructure # <<>>
       \/ data.textStyleSync # <<>>
       \/ data.componentBindings # <<>>

C26_OneFinalResult ==
    /\ promise # "rejected"
    /\ hpc \in {"called", "fetchPluginData"} =>
          \A i \in 1..Len(posted) : posted[i].type = "audit-progress"
    /\ hpc = "settled" =>
          /\ promise = "fulfilled"
          /\ IF ResultTypeFor(uiMessage[1].type) = "none"
             THEN posted = <<>>
             ELSE /\ posted # <<>>
                  /\ posted[Len(posted)].type = ResultTypeFor(uiMessage[1].type)
                  /\ \A i \in 1..(Len(posted) - 1) : posted[i].type = "audit-progress"
                  /\ CarriesError(posted[Len(posted)].data)
                        # CarriesResults(posted[Len(posted)].data)

\* A components audit that reported progress three times, then its results.
C26_Witness ==
    /\ hpc = "settled"
    /\ uiMessage[1].type = "analyze-components"
    /\ Len(posted) = 4
    /\ posted[3].type = "audit-progress"
    /\ posted[4].type = "components-audit-result"
    /\ CarriesResults(posted[4].data)

(***************************************************************************)
(* C25.  The audit type selects the validators whose checks are in the     *)
(* results.  In a standard audit of the CLI: with components the           *)
(* collection and the text style lists are empty; with variables-styles    *)
(* the component list is empty; in every case the collection list holds    *)
(* checks of the collection validator only, the text style list those of   *)
(* the text style sync validator followed by those of the text style       *)
(* binding validator, and the component list those of the component        *)
(* binding validator; an empty section has total 0 and score 100, and the  *)
(* overall statistics are those of the collection, text style and          *)
(* component lists concatenated in that order.  In the results the plugin  *)
(* posts: the system audit has the three lists and the four scores, the    *)
(* overall one over the three lists concatenated in that order; the        *)
(* variables and styles audit has neither the component list nor its       *)
(* score, and its overall score is over the collection and text style      *)
(* lists; the components audit has the component list and its score only.  *)
(***************************************************************************)
LabelsOf(cs) == [i \in 1..Len(cs) |-> cs[i].check]

\* All checks of the first validator come before all checks of the second.
OneThenOther(labels, first, second) ==
    /\ \A i \in 1..Len(labels) : labels[i] \in {first, second}
    /\ \A i, j \in 1..Len(labels) : (labels[i] = second /\ labels[j] = first) => j < i

NothingRun(sectionStats) == sectionStats.total = 0 /\ sectionStats.score = 100

CliSelectsValidators ==
    StandardAuditDone =>
        LET r == audit[1]
            type == args[1].auditType
        IN  /\ type = "components" => r.collectionStructure = <<>> /\ r.textStyleSync = <<>>
            /\ type = "variables-styles" => r.componentBindings = <<>>
            /\ \A i \in 1..Len(r.collectionStructure) : r.collectionStructure[i].check = "collection"
            /\ OneThenOther(LabelsOf(r.textStyleSync), "sync", "bindings")
            /\ \A i \in 1..Len(r.componentBindings) : r.componentBindings[i].check = "components"
            /\ r.collectionStructure = <<>> => NothingRun(r.scores.collection)
            /\ r.textStyleSync = <<>> => NothingRun(r.scores.textStyle)
            /\ r.componentBindings = <<>> => NothingRun(r.scores.component)
            /\ r.scores.overall =
                  calculateAuditStats(r.collectionStructure \o r.textStyleSync \o r.componentBindings)
            /\ r.scores.overall.total =
                  Len(r.collectionStructure) + Len(r.textStyleSync) + Len(r.componentBindings)

\* The plugin posted the results of an audit.
PluginResultsPosted ==
    /\ hpc = "settled"
    /\ posted # <<>>
    /\ CarriesResults(posted[Len(posted)].data)

PluginSelectsValidators ==
    PluginResultsPosted =>
        LET d == posted[Len(posted)].data
            type == uiMessage[1].type
            scores == d.scores[1]
        IN  /\ type = "analyze-components" =>
                  /\ d.collectionStructure = <<>> /\ d.textStyleSync = <<>>
                  /\ scores.collection = <<>> /\ scores.textStyle = <<>> /\ scores.overall = <<>>
                  /\ d.componentBindings # <<>> /\ scores.component # <<>>
            /\ type = "analyze-variables-styles" =>
                  /\ d.componentBindings = <<>> /\ scores.component = <<>>
                  /\ d.collectionStructure # <<>> /\ d.textStyleSync # <<>>
                  /\ scores.overall = <<pluginCalculateAuditStats(
                                           d.collectionStructure[1] \o d.textStyleSync[1])>>
            /\ type = "analyze-system" =>
                  /\ d.collectionStructure # <<>> /\ d.textStyleSync # <<>>
                  /\ d.componentBindings # <<>>
                  /\ scores.collection # <<>> /\ scores.textStyle # <<>>
                  /\ scores.component # <<>>
                  /\ scores.overall = <<pluginCalculateAuditStats(
                                           d.collectionStructure[1] \o d.textStyleSync[1]
                                           \o d.componentBindings[1])>>
            /\ d.collectionStructure # <<>> =>
                  \A i \in 1..Len(d.collectionStructure[1]) :
                      d.collectionStructure[1][i].check = "collection"
            /\ d.textStyleSync # <<>> =>
                  OneThenOther(LabelsOf(d.textStyleSync[1]), "sync", "bindings")

C25_AuditTypeSelectsValidators ==
    /\ CliSelectsValidators
    /\ PluginSelectsValidators

\* A system audit of the CLI in which each of the four validators returned
\* checks.
C25_Witness ==
    /\ StandardAuditDone
    /\ args[1].auditType = "system"
    /\ audit[1].collectionStructure # <<>>
    /\ \E i, j \in 1..Len(audit[1].textStyleSync) :
          audit[1].textStyleSync[i].check = "sync" /\ audit[1].textStyleSync[j].check = "bindings"
    /\ audit[1].componentBindings # <<>>

\* The claim as stated, for the plugin as for the CLI: a section that did
\* not run is reported with total 0 and score 100.
C25_Original ==
    /\ CliSelectsValidators
    /\ PluginResultsPosted =>
          LET d == posted[Len(posted)].data
              type == uiMessage[1].type
              scores == d.scores[1]
          IN  /\ type = "analyze-components" =>
                    /\ scores.collection # <<>> /\ NothingRun(scores.collection[1])
                    /\ scores.textStyle # <<>> /\ NothingRun(scores.textStyle[1])
              /\ type = "analyze-variables-styles" =>
                    scores.component # <<>> /\ NothingRun(scores.component[1])

(***************************************************************************)
(* C27.  With an onProgress callback that does not throw and N components, *)
(* a call of analyzeAllComponents that returns has invoked the callback    *)
(* exactly N times (never for N = 0), the i-th time with the message       *)
(* naming the i-th component of the input and the position i/N, and it     *)
(* returns what it returns without a callback.  Each invocation comes      *)
(* before the analysis of its component: when the analysis of a component  *)
(* raises, the callback has been invoked for that component and for those  *)
(* before it, and for no other.                                            *)
(***************************************************************************)
MessageFor(i) == <<"Analyzing", components[i].node.name, i, Len(components)>>

FirstRaising == CHOOSE i \in Raising : \A j \in Raising : i <= j

C27_ProgressPerComponent ==
    /\ (onProgress.kind = "log" /\ apc = "batch") =>
          /\ Len(progress) = Len(components)
          /\ \A i \in 1..Len(components) : progress[i] = MessageFor(i)
          /\ results = analyzeAllComponents(components)
    /\ (onProgress.kind = "log" /\ apc = "threw") =>
          /\ Len(progress) = FirstRaising
          /\ \A i \in 1..FirstRaising : progress[i] = MessageFor(i)
    /\ (onProgress.kind = "undefined" /\ apc = "batch") =>
          /\ progress = <<>>
          /\ results = analyzeAllComponents(components)

\* Three components of different names, analysed with a callback.
C27_Witness ==
    /\ apc = "batch"
    /\ onProgress.kind = "log"
    /\ Len(components) = 3
    /\ components[1].node.name # components[2].node.name
    /\ components[2].node.name # components[3].node.name
    /\ Len(progress) = 3

(***************************************************************************)
(* C28.  findComponents returns the nodes of type COMPONENT or             *)
(* COMPONENT_SET of all the pages' trees, one entry per such node, in      *)
(* depth-first pre-order with pages and children in document order: a      *)
(* matched node comes before the matched nodes below it, and no node of    *)
(* another type is returned.                                               *)
(***************************************************************************)
\* A position as one path: the page, the top-level child, the way down.
FlatPath(q) == <<q[1], q[2]>> \o q[3]

\* Pre-order of positions: an ancestor before what is below it, and an
\* earlier page or sibling before a later one.
RECURSIVE PathBefore(_, _)
PathBefore(a, b) ==
    IF a = <<>> THEN b # <<>>
    ELSE IF b = <<>> THEN FALSE
    ELSE IF Head(a) = Head(b) THEN PathBefore(Tail(a), Tail(b))
    ELSE Head(a) < Head(b)

PreOrderRank(q) ==
    1 + Cardinality({r \in ComponentPositions : PathBefore(FlatPath(r), FlatPath(q))})

C28_FindComponentsPreOrder ==
    rpc # "pages" =>
        /\ Len(lintComponents) = Cardinality(ComponentPositions)
        /\ \A q \in ComponentPositions : lintComponents[PreOrderRank(q)] = Contained(q)
        /\ \A i \in 1..Len(lintComponents) :
              lintComponents[i].node.type \in {"COMPONENT", "COMPONENT_SET"}

\* Two pages; the second holds a text node, a component set with a
\* component nested in it, and a component after the set.
C28_Witness ==
    /\ rpc = "found"
    /\ Len(pages) = 2
    /\ Len(pages[1].children) = 1
    /\ pages[1].children[1].type = "FRAME"
    /\ Len(pages[2].children) = 3
    /\ pages[2].children[1].type = "TEXT"
    /\ Len(lintComponents) = 4
    /\ lintComponents[2].node.type = "COMPONENT_SET"
    /\ lintComponents[3].node.type = "COMPONENT"
    /\ lintComponents[1].pageName # lintComponents[2].pageName

(***************************************************************************)
(* C29.  For every file key made of letters and digits and every non-empty *)
(* node id made of digits and colons, parseFigmaUrl, in either variant,    *)
(* returns from the deep link buildFigmaUrl wrote for them the same file   *)
(* key and the same node id.                                               *)
(***************************************************************************)
DeepLinkParsed == deepLink # <<>> /\ urlParser \in {"url-parser", "unescaping"}

RoundTrip ==
    /\ ~urlParts[1].threw
    /\ urlParts[1].fileKey = deepLink[1].fileKey
    /\ urlParts[1].nodeId = <<deepLink[1].nodeId>>

\* One run of letters and digits: none of the characters a URL gives a
\* meaning to.
LettersAndDigits(text) ==
    /\ Len(text) = 1
    /\ text[1] \notin {"/", "\\", "?", "&", "=", "-", ":", ".", "://"}

FigmaHost(host) ==
    \/ host = <<"figma", ".", "com">>
    \/ /\ Len(host) > 4
       /\ SubSeq(host, Len(host) - 3, Len(host)) = <<".", "figma", ".", "com">>

C30_ForeignHostRejected ==
    ParsedUrl =>
        \A u \in ShapesOf(url) :
            (IsUrl(u) /\ ~FigmaHost(u.host)) =>
                /\ urlParts[1].threw
                /\ urlParts[1].error = "Not a Figma URL"
                /\ urlParts[1].fileKey = <<>>
====
